---- MODULE Spec2Model ----
(***************************************************************************)
(* Model of the bitcoind RPC block/mempool emitter                         *)
(* (crates/bitcoind_rpc/src/lib.rs) and of the Electrum script scan        *)
(* (crates/electrum/src/bdk_electrum_client.rs).                           *)
(*                                                                         *)
(* The node is a block store plus a best chain; the emitter talks to it    *)
(* one RPC at a time, and the node may mine or invalidate blocks between   *)
(* any two RPCs.                                                           *)
(***************************************************************************)
EXTENDS Integers, Sequences, FiniteSets, TLC

\* ------------------------------------------------------------------ bounds
\* Number of blocks the node ever creates (block hashes are 1..MaxBlocks) and
\* largest height the best chain reaches, in the specifications of the block
\* emitter alone.
MaxBlocks == 6
MaxHeight == 3
\* The same two, in the specifications with the mempool.
MaxPoolBlocks == 4
MaxPoolHeight == 2
\* Largest start height given to Emitter::from_height.
MaxStart == 2
\* Largest value of the node's clock (mempool first-seen times are 1..MaxTime).
MaxTime == 2
\* Number of distinct mempool transactions.
MaxTxs == 1

\* Number of script pubkeys a keychain supplies (indices 0..MaxSpks-1), largest
\* stop_gap and largest batch_size of a scan.
MaxSpks == 6
MaxStopGap == 2
MaxBatch == 3

\* Number of transactions of the server, largest output index and largest
\* number of outpoints of a request when populate_with_outpoints is checked.
MaxOpTxs == 3
MaxVout == 2
MaxOutpoints == 2
\* Number of threads that call fetch_tx at the same time, and the txids they ask for.
MaxCallers == 2
MaxCallTxids == 2

\* Largest tip height of the Electrum server's chain at the start, number of
\* times the server's chain changes afterwards, and largest number of
\* checkpoints of the caller's chain tip.
MaxElHeight == 9
MaxSrvSteps == 2
MaxCps == 3
\* The scans a caller makes one after the other.
MaxScans == 2
\* The transactions of the mempool when the fetches of transactions are checked.
MaxFetchTxs == 2

\* bdk_electrum_client.rs: CHAIN_SUFFIX_LENGTH.
CHAIN_SUFFIX_LENGTH == 8

Txs == 1..MaxTxs

\* Option::None of a block hash and of a u32 height.
NoHash == 0
NoHeight == -1
\* Option::None of a script index.
NoIndex == -1

VARIABLES
    \* ---- node
    blk,                \* hash -> [height, prev]: every block the node stores
    best,               \* best chain: best[h+1] is the hash at height h
    pool,               \* txid -> mempool entry [in, time, height]
    now,                \* node clock
    \* ---- Emitter fields
    start_height,
    last_cp,            \* Option<CheckPoint>: <<>> is None, else ascending BlockIds
    last_block,         \* Option<GetBlockResult>: NoBlock is None
    last_mempool_time,
    last_mempool_tip,   \* Option<u32>: NoHeight is None
    \* ---- position of the call in progress
    pc,                 \* "new", "idle", "poll", "start_info", "walk", "item",
                        \* "mempool", "panic"
    res,                \* the GetBlockResult of PollResponse::Block
    walk,               \* index into last_cp of the checkpoint the walk fetches next
    start_hash,         \* hash returned by get_block_hash
    ret,                \* what the last call returned
    entries,            \* get_raw_mempool_verbose response of the mempool() call
                        \* in progress
    \* ---- history (not program state)
    info_best,          \* node's best chain at the last get_block_info response
    last_emitted,       \* height of the last block next_* returned (NoHeight: none)
    agreed,             \* height of the agreement point the last next_* call
                        \* found (NoHeight: none)
    caught_up,          \* "quiet": the best chain did not change since the call
                        \* in progress began; "none": it did not change since
                        \* the beginning of a call that returned None; else "no"
    emitted_ever,       \* txids some mempool() call has emitted
    emitted_txs,        \* txids emitted since they entered the mempool
    low,                \* txid -> lowest value a reorg lowered last_mempool_tip
                        \* to since the txid was last emitted (NoHeight: none)
    reorg_below,        \* emitted txids whose originally-seen height lost its
                        \* checkpoint in a reorg since the last mempool() call
    mempool_called,     \* mempool() returned Ok since next_* last returned a block
    emitted_on_best,    \* txids in the mempool since a mempool() call emitted them
                        \* while every checkpoint of last_cp was in the best chain
    \* ---- Electrum server: its headers are the node's best chain
    active,             \* indices of the scripts with a non-empty history; the
                        \* history of script i is the one transaction with txid i
    block_txs,          \* <<txid, hash>>: the block with that hash holds the txid
    \* ---- Electrum scan of one keychain (populate_with_spks)
    stop_gap,
    batch_size,
    scan_pc,            \* "off", "pull", "process", "fetch", "merkle", "header",
                        \* "done", "err"
    next_spk,           \* position of the spks iterator
    batch,              \* indices of the pulled batch still to be processed
    spk_histories,      \* the histories the server returned for them
    unused_spk_count,
    last_active_index,  \* Option<I>: NoIndex is None
    queried,            \* server: indices whose history was requested
    tx_res,             \* the history entry whose transaction is being handled
    merkle_res,         \* transaction_get_merkle response of validate_merkle_for_anchor
    \* ---- BdkElectrumClient and the graph update of the scan in progress
    tx_cache,           \* txids in the transaction cache
    graph_txs,          \* txids of the transactions in graph_update
    anchors,            \* [txid, height, hash]: the anchors in graph_update
    tx_gets,            \* server: txid -> number of transaction_get requests
    \* ---- fetch_tip_and_latest_blocks
    chain_tip,          \* prev_tip, the request's chain_tip: ascending BlockIds
    new_tip_height,
    new_blocks,         \* BTreeMap<u32, BlockHash>: height -> hash
    tip_walk,           \* index into prev_tip of the checkpoint compared next
    new_tip,            \* the returned tip
    latest_blocks,      \* the returned map of blocks
    \* ---- the call of the client in progress
    el_op,              \* "tip", "full_scan", "sync"
    el_pc,              \* "idle", "tip", "headers", "walk", "spks", "txids",
                        \* "prev_txout", "done", "err", "panic"
    tip_round,          \* number of fetch_tip_and_latest_blocks calls of the call
    txids,              \* the txids of the SyncRequest still to be handled
    chain_update_tip,   \* the chain_update of the result
    \* ---- history (not program state)
    srv_steps,          \* number of changes of the server's chain so far
    tip_quiet,          \* the server's chain did not change since the
                        \* fetch_tip_and_latest_blocks call in progress began
    hdr_reqs,           \* heights of the headers that call requested
    wallet,             \* the caller's state: the results it has merged
    \* ---- Electrum server: transactions and the history of one script
    op_txs,             \* txid -> [outputs, inputs]: the number of outputs of
                        \* the transaction and the outpoints its inputs spend
    script_history,     \* script_get_history of the script of the outputs
    \* ---- populate_with_outpoints
    op_pc,              \* "off", "next", "walk", "done", "err"
    outpoints,          \* the outpoints of the request still to be handled
    outpoint,           \* the outpoint being handled: <<txid, vout>>
    op_hist,            \* the history entries the walk has not reached yet
    has_residing,
    has_spending,
    \* ---- history (not program state)
    op_inserted,        \* txids inserted into graph_update for this outpoint
    op_validated,       \* txids given to validate_merkle_for_anchor for it
    op_seen,            \* number of history entries the walk has handled
    \* ---- threads that call fetch_tx on one client
    cache_lock,         \* the thread that holds the tx_cache mutex, 0: nobody
    cache_map,          \* <<txid, arc>>: the entries of the tx_cache HashMap;
                        \* arc is the thread whose fetch made the Arc, 0: an
                        \* Arc cached before
    ft_pc,              \* thread -> "idle", "lock", "get", "net", "relock",
                        \* "insert", "ret"
    ft_txid,            \* thread -> the txid it asks for
    ft_ret,             \* thread -> what its call returned
    ft_missed           \* thread -> its call found nothing in the cache

indexVars == <<active, block_txs>>
scanLoop == <<stop_gap, batch_size, scan_pc, next_spk, batch, spk_histories,
              unused_spk_count, last_active_index, queried, tx_res, merkle_res>>
graphVars == <<tx_cache, graph_txs, anchors, tx_gets>>
tipVars == <<chain_tip, new_tip_height, new_blocks, tip_walk, new_tip, latest_blocks>>
elCall == <<el_op, el_pc, tip_round, txids, chain_update_tip>>
elHist == <<srv_steps, tip_quiet, hdr_reqs, wallet>>
outpointVars == <<op_txs, script_history, op_pc, outpoints, outpoint, op_hist,
                  has_residing, has_spending, op_inserted, op_validated, op_seen>>
callerVars == <<cache_lock, cache_map, ft_pc, ft_txid, ft_ret, ft_missed>>
scanVars == <<indexVars, scanLoop, graphVars, tipVars, elCall, elHist,
              outpointVars, callerVars>>
nodeVars == <<blk, best, pool, now>>
emitterVars == <<start_height, last_cp, last_block, last_mempool_time, last_mempool_tip>>
callVars == <<pc, res, walk, start_hash, ret, entries>>
chainHist == <<info_best, last_emitted, agreed, caught_up>>
poolHist ==
    <<emitted_ever, emitted_txs, low, reorg_below, mempool_called, emitted_on_best>>
histVars == <<chainHist, poolHist>>
emitterSide == <<nodeVars, emitterVars, callVars, histVars>>
vars == <<emitterSide, scanVars>>

\* ------------------------------------------------------------------ node
NoBlock == [hash |-> NoHash, height |-> 0, confirmations |-> 0,
            previousblockhash |-> NoHash, nextblockhash |-> NoHash]

TipHeight == Len(best) - 1

InBestChain(h) == \E i \in 1..Len(best) : best[i] = h

\* getblock <hash> verbosity 1: confirmations is -1 for a block outside the best
\* chain; nextblockhash is present only for a best-chain block below the tip.
GetBlockInfo(h) ==
    [hash |-> h,
     height |-> blk[h].height,
     confirmations |-> IF InBestChain(h) THEN Len(best) - blk[h].height ELSE -1,
     previousblockhash |-> blk[h].prev,
     nextblockhash |-> IF InBestChain(h) /\ blk[h].height + 2 <= Len(best)
                       THEN best[blk[h].height + 2] ELSE NoHash]

NoEntry == [in |-> FALSE, time |-> 0, height |-> 0]

\* ------------------------------------------------------------------ CheckPoint
BlockId(height, hash) == [height |-> height, hash |-> hash]

CpHeight(cp) == cp[Len(cp)].height

\* CheckPoint::push: fails unless the pushed height is above the tip's.
CanPush(cp, id) == id.height > CpHeight(cp)
Push(cp, id) == Append(cp, id)

\* The block ids of a checkpoint chain, and of a best chain.
CpIds(cp) == {cp[i] : i \in 1..Len(cp)}
ChainIds(chain) == {BlockId(i - 1, chain[i]) : i \in 1..Len(chain)}
ChainTip(chain) == BlockId(Len(chain) - 1, chain[Len(chain)])

RECURSIVE CpOf(_, _)
\* The checkpoint chain holding the best-chain blocks at the heights in S up to h.
CpOf(S, h) ==
    IF h < 0 THEN <<>>
    ELSE IF h \in S THEN Append(CpOf(S, h - 1), BlockId(h, best[h + 1]))
    ELSE CpOf(S, h - 1)

NoEntries == [t \in DOMAIN pool |-> NoEntry]

NoRet == [kind |-> "none", height |-> 0, hash |-> NoHash, txs |-> {}]
RetSome(height, hash) == [kind |-> "Some", height |-> height, hash |-> hash, txs |-> {}]
RetNone == [kind |-> "None", height |-> 0, hash |-> NoHash, txs |-> {}]
RetErr == [kind |-> "Err", height |-> 0, hash |-> NoHash, txs |-> {}]
RetMempool(txs) == [kind |-> "Mempool", height |-> 0, hash |-> NoHash, txs |-> txs]

\* No history entry, no Merkle proof.
NoTx == [tx_hash |-> NoIndex, height |-> 0]
NoMerkle == [block_height |-> 0, block |-> NoHash]

\* The threads that call fetch_tx.
Callers == 1..MaxCallers

\* No outpoint, and no result of a fetch_tx call.
NoOutpoint == <<NoIndex, 0>>
NoFetch == [kind |-> "none", txid |-> NoIndex, arc |-> 0]

\* populate_with_outpoints is not running.
NoOutpointScan ==
    /\ op_txs = <<>>
    /\ script_history = <<>>
    /\ op_pc = "off"
    /\ outpoints = <<>>
    /\ outpoint = NoOutpoint
    /\ op_hist = <<>>
    /\ has_residing = FALSE
    /\ has_spending = FALSE
    /\ op_inserted = <<>>
    /\ op_validated = <<>>
    /\ op_seen = 0

\* No thread is in fetch_tx and the mutex of the cache is free.
NoCallers ==
    /\ cache_lock = 0
    /\ cache_map = {}
    /\ ft_pc = [c \in Callers |-> "idle"]
    /\ ft_txid = [c \in Callers |-> NoIndex]
    /\ ft_ret = [c \in Callers |-> NoFetch]
    /\ ft_missed = [c \in Callers |-> FALSE]

\* populate_with_spks has not pulled anything yet.
ScanStart ==
    /\ next_spk = 0
    /\ batch = <<>>
    /\ spk_histories = <<>>
    /\ unused_spk_count = 0
    /\ last_active_index = NoIndex
    /\ queried = {}
    /\ tx_res = NoTx
    /\ merkle_res = NoMerkle

\* BdkElectrumClient::new and an empty graph update.
NewClient ==
    /\ tx_cache = {}
    /\ graph_txs = {}
    /\ anchors = {}
    /\ tx_gets = [t \in 0..(MaxSpks - 1) |-> 0]

\* The empty BTreeMap.
NoBlocks == <<>>

\* The caller has merged no result yet.
NoWallet == [scans |-> 0, last_active_index |-> NoIndex, anchors |-> {}]

\* No call of the client is in progress; populate_with_spks may run by itself.
NoCall ==
    /\ chain_tip = <<>>
    /\ new_tip_height = 0
    /\ new_blocks = NoBlocks
    /\ tip_walk = 0
    /\ new_tip = <<>>
    /\ latest_blocks = NoBlocks
    /\ el_op = "none"
    /\ el_pc = "off"
    /\ tip_round = 0
    /\ txids = <<>>
    /\ chain_update_tip = <<>>
    /\ srv_steps = 0
    /\ tip_quiet = FALSE
    /\ hdr_reqs = {}
    /\ wallet = NoWallet

\* No scan is in progress.
ScanOff ==
    /\ active = {}
    /\ block_txs = {}
    /\ stop_gap = 0
    /\ batch_size = 0
    /\ scan_pc = "off"
    /\ ScanStart
    /\ NoOutpointScan
    /\ NoCallers
    /\ NewClient
    /\ NoCall

\* A node with the genesis block only.
GenesisNode ==
    /\ blk = <<[height |-> 0, prev |-> NoHash]>>
    /\ best = <<1>>
    /\ pool = [t \in Txs |-> NoEntry]
    /\ now = 1

\* No Emitter yet.
EmitterNew ==
    /\ start_height = 0
    /\ last_cp = <<>>
    /\ last_block = NoBlock
    /\ last_mempool_time = 0
    /\ last_mempool_tip = NoHeight
    /\ pc = "new"
    /\ res = NoBlock
    /\ walk = 0
    /\ start_hash = NoHash
    /\ ret = NoRet
    /\ entries = [t \in Txs |-> NoEntry]
    /\ info_best = <<>>
    /\ last_emitted = NoHeight
    /\ agreed = NoHeight
    /\ caught_up = "no"
    /\ emitted_ever = {}
    /\ emitted_txs = {}
    /\ low = [t \in Txs |-> NoHeight]
    /\ reorg_below = {}
    /\ mempool_called = FALSE
    /\ emitted_on_best = {}

NoEmitter == GenesisNode /\ EmitterNew

Init == NoEmitter /\ ScanOff

\* ------------------------------------------------------------------ node steps
\* generate_to_address(1): a new block on top of the best chain.
MineBlock(max_blocks, max_height) ==
    /\ Len(blk) < max_blocks
    /\ TipHeight < max_height
    /\ blk' = Append(blk, [height |-> Len(best), prev |-> best[Len(best)]])
    /\ best' = Append(best, Len(blk) + 1)
    /\ caught_up' = "no"
    /\ UNCHANGED <<pool, now, scanVars, emitterVars, callVars, info_best, last_emitted,
                   agreed, poolHist>>

\* invalidate_block(best tip): the tip leaves the best chain (it stays stored).
InvalidateBlock ==
    /\ Len(best) > 1
    /\ best' = SubSeq(best, 1, Len(best) - 1)
    /\ caught_up' = "no"
    /\ UNCHANGED <<blk, pool, now, scanVars, emitterVars, callVars, info_best, last_emitted,
                   agreed, poolHist>>

\* ------------------------------------------------------------------ Emitter
\* Emitter::from_height.
FromHeight(s) ==
    /\ pc = "new"
    /\ start_height' = s
    /\ last_cp' = <<>>
    /\ last_block' = NoBlock
    /\ last_mempool_time' = 0
    /\ last_mempool_tip' = NoHeight
    /\ pc' = "idle"
    /\ UNCHANGED <<scanVars, nodeVars, res, walk, start_hash, ret, entries, histVars>>

\* Emitter::from_checkpoint: the caller's checkpoints are blocks of the chain
\* that is best when the emitter is built (the node may reorg afterwards).
FromCheckpoint(S) ==
    /\ pc = "new"
    /\ start_height' = 0
    /\ last_cp' = CpOf(S, TipHeight)
    /\ last_block' = NoBlock
    /\ last_mempool_time' = 0
    /\ last_mempool_tip' = NoHeight
    /\ pc' = "idle"
    /\ UNCHANGED <<scanVars, nodeVars, res, walk, start_hash, ret, entries, histVars>>

\* Emitter::next_block / Emitter::next_header enter poll's loop (the two differ
\* only in the item that get_item fetches).
CallNext ==
    /\ pc = "idle"
    /\ pc' = "poll"
    /\ res' = NoBlock
    /\ ret' = NoRet
    /\ caught_up' = IF caught_up = "none" THEN "none" ELSE "quiet"
    /\ agreed' = NoHeight
    /\ UNCHANGED <<scanVars, nodeVars, emitterVars, walk, start_hash, entries,
                   info_best, last_emitted, poolHist>>

\* res.confirmations < 0: the block is not in the best chain.
NotInBestChain(r) == r.confirmations < 0

\* (mutant) the cached block's own hash is polled again.
NextHash_Same(lb) == lb.hash

\* poll_once: the hash of the block after the cached last block, if any.
NextHash(lb) == lb.nextblockhash

\* (mutant) BlockNotInBestChain keeps the cached block.
ForgetLastBlock_Keep(lb) == lb

\* poll, BlockNotInBestChain: the cached block is dropped.
ForgetLastBlock(lb) == NoBlock

\* poll_once with a cached last block: NoMoreBlocks without any RPC, or
\* get_block_info of the cached next hash.  poll then handles NoMoreBlocks and
\* BlockNotInBestChain; a Block response waits for get_item.
PollCached ==
    /\ pc = "poll"
    /\ last_block # NoBlock
    /\ IF last_cp = <<>>
       THEN \* assert!(emitter.last_cp.is_some())
            /\ pc' = "panic"
            /\ UNCHANGED <<emitterVars, res, ret, histVars>>
       ELSE IF NextHash(last_block) = NoHash
       THEN /\ last_block' = NoBlock
            /\ ret' = RetNone
            /\ pc' = "idle"
            /\ caught_up' = IF caught_up = "no" THEN "no" ELSE "none"
            /\ UNCHANGED <<start_height, last_cp, last_mempool_time,
                           last_mempool_tip, res, info_best, last_emitted,
                           agreed, poolHist>>
       ELSE LET r == GetBlockInfo(NextHash(last_block)) IN
            /\ info_best' = best
            /\ IF NotInBestChain(r)
               THEN /\ last_block' = ForgetLastBlock(last_block)
                    /\ pc' = "poll"
                    /\ UNCHANGED res
               ELSE /\ res' = r
                    /\ pc' = "item"
                    /\ UNCHANGED last_block
            /\ UNCHANGED <<start_height, last_cp, last_mempool_time,
                           last_mempool_tip, ret, last_emitted, agreed,
                           caught_up, poolHist>>
    /\ UNCHANGED <<scanVars, nodeVars, walk, start_hash, entries>>

\* poll_once without cached block and without checkpoint: get_block_hash of
\* start_height (an RPC error when the height is above the node's tip).
PollStartHash ==
    /\ pc = "poll"
    /\ last_block = NoBlock
    /\ last_cp = <<>>
    /\ IF start_height > TipHeight
       THEN /\ ret' = RetErr
            /\ pc' = "idle"
            /\ caught_up' = IF caught_up = "none" THEN "none" ELSE "no"
            /\ UNCHANGED start_hash
       ELSE /\ start_hash' = best[start_height + 1]
            /\ pc' = "start_info"
            /\ UNCHANGED <<ret, caught_up>>
    /\ UNCHANGED <<scanVars, nodeVars, emitterVars, res, walk, entries, info_best,
                   last_emitted, agreed, poolHist>>

\* ... then get_block_info of that hash.
PollStartInfo ==
    /\ pc = "start_info"
    /\ LET r == GetBlockInfo(start_hash) IN
       /\ info_best' = best
       /\ IF NotInBestChain(r)
          THEN /\ last_block' = ForgetLastBlock(last_block)
               /\ pc' = "poll"
               /\ UNCHANGED res
          ELSE /\ res' = r
               /\ pc' = "item"
               /\ UNCHANGED last_block
    /\ start_hash' = NoHash
    /\ UNCHANGED <<scanVars, nodeVars, start_height, last_cp, last_mempool_time,
                   last_mempool_tip, walk, ret, entries, last_emitted, agreed,
                   caught_up, poolHist>>

\* poll, AgreementFound: the tip of the last mempool emission is lowered to the
\* agreement height when it is above it.
LowerMempoolTip(tip, agreement_h) ==
    IF tip # NoHeight /\ tip > agreement_h THEN agreement_h ELSE tip

\* (mutant) the agreement leaves no checkpoint at all.
TruncateTo_None(cp, i) == <<>>

\* (mutant) the evicted checkpoints are kept.
TruncateTo_Keep(cp, i) == cp

\* poll, AgreementFound: last_cp becomes the agreement checkpoint (the chain
\* up to and including the checkpoint at index i).
TruncateTo(cp, i) == SubSeq(cp, 1, i)

\* (mutant) the restart takes the height of the lowest checkpoint.
RestartHeight_First(cp) == cp[1].height

\* poll, AgreementPointNotFound: the new start height.
RestartHeight(cp) == CpHeight(cp)

\* History: the mempool transactions, emitted while last_cp was in the best
\* chain, whose originally-seen height is at or above a checkpoint that a reorg
\* removes (the checkpoints above index i).
LostBelow(i) ==
    {t \in emitted_on_best :
        \E k \in (i + 1)..Len(last_cp) : last_cp[k].height <= pool[t].height}

\* poll_once without cached block, with checkpoints: one get_block_info of the
\* walk from the tip of last_cp down.  poll handles AgreementFound and
\* AgreementPointNotFound.
PollWalk ==
    /\ \/ pc = "poll" /\ last_block = NoBlock /\ last_cp # <<>>
       \/ pc = "walk"
    /\ LET i == IF pc = "poll" THEN Len(last_cp) ELSE walk
           r == GetBlockInfo(last_cp[i].hash)
       IN
       /\ info_best' = best
       /\ IF ~NotInBestChain(r)
          THEN /\ last_cp' = TruncateTo(last_cp, i)
               /\ last_mempool_tip' = LowerMempoolTip(last_mempool_tip, r.height)
               /\ last_block' = r
               /\ pc' = "poll"
               /\ walk' = 0
               /\ low' = [t \in DOMAIN low |->
                            IF last_mempool_tip' # last_mempool_tip
                               /\ (low[t] = NoHeight \/ r.height < low[t])
                            THEN r.height ELSE low[t]]
               /\ reorg_below' = reorg_below \cup LostBelow(i)
               /\ agreed' = r.height
               /\ UNCHANGED start_height
          ELSE IF i > 1
          THEN /\ pc' = "walk"
               /\ walk' = i - 1
               /\ UNCHANGED <<start_height, last_cp, last_block, last_mempool_tip,
                              low, reorg_below, agreed>>
          ELSE /\ start_height' = RestartHeight(last_cp)
               /\ last_cp' = <<>>
               /\ last_block' = NoBlock
               /\ pc' = "poll"
               /\ walk' = 0
               /\ reorg_below' = reorg_below \cup LostBelow(0)
               /\ agreed' = NoHeight
               /\ UNCHANGED <<last_mempool_tip, low>>
    /\ UNCHANGED <<scanVars, nodeVars, last_mempool_time, res, start_hash, ret, entries,
                   last_emitted, caught_up, emitted_ever, emitted_txs,
                   mempool_called, emitted_on_best>>

\* poll, Block(res): the BlockIds of the block and of its previous block.
ThisId(r) == BlockId(r.height, r.hash)
PrevId(r) == BlockId(r.height - 1, r.previousblockhash)

\* (mutant) the block is not pushed onto an existing checkpoint.
ExtendCp_NoPush(cp, r) ==
    IF cp # <<>> THEN cp
    ELSE IF r.previousblockhash = NoHash THEN <<ThisId(r)>>
    ELSE Push(<<PrevId(r)>>, ThisId(r))

\* (mutant) an absent last_cp is seeded with the block alone.
ExtendCp_NoPrev(cp, r) ==
    IF cp # <<>> THEN Push(cp, ThisId(r)) ELSE <<ThisId(r)>>

\* poll, Block(res): last_cp after the block was emitted.
ExtendCp(cp, r) ==
    IF cp # <<>> THEN Push(cp, ThisId(r))
    ELSE IF r.previousblockhash = NoHash THEN <<ThisId(r)>>
    ELSE Push(<<PrevId(r)>>, ThisId(r))

\* poll, Block(res): get_item succeeded; the checkpoint is pushed, the block
\* info cached and the block returned.
GetItem ==
    /\ pc = "item"
    /\ IF last_cp # <<>> /\ ~CanPush(last_cp, ThisId(res))
       THEN \* expect("must push")
            /\ pc' = "panic"
            /\ UNCHANGED <<last_cp, last_block, ret, last_emitted, agreed, caught_up,
                           mempool_called>>
       ELSE /\ last_cp' = ExtendCp(last_cp, res)
            /\ last_block' = res
            /\ ret' = RetSome(res.height, res.hash)
            /\ pc' = "idle"
            /\ last_emitted' = res.height
            /\ caught_up' = "no"
            /\ mempool_called' = FALSE
            /\ UNCHANGED agreed
    /\ UNCHANGED <<scanVars, nodeVars, start_height, last_mempool_time, last_mempool_tip,
                   res, walk, start_hash, entries, info_best, emitted_ever,
                   emitted_txs, low, reorg_below, emitted_on_best>>

\* An RPC of next_block/next_header fails in transport: `?` returns the error
\* and the emitter keeps what the loop had set so far.
RpcPending ==
    \/ pc \in {"start_info", "walk", "item"}
    \/ pc = "poll" /\ ~(last_block # NoBlock /\ NextHash(last_block) = NoHash)

\* (mutant) get_item is called after the block was pushed and cached.
RpcFail_AfterPush ==
    /\ RpcPending
    /\ ret' = RetErr
    /\ pc' = "idle"
    /\ caught_up' = IF caught_up = "none" THEN "none" ELSE "no"
    /\ last_cp' = IF pc = "item" /\ (last_cp = <<>> \/ CanPush(last_cp, ThisId(res)))
                  THEN ExtendCp(last_cp, res) ELSE last_cp
    /\ last_block' = IF pc = "item" THEN res ELSE last_block
    /\ UNCHANGED <<scanVars, nodeVars, start_height, last_mempool_time,
                   last_mempool_tip, res, walk, start_hash, entries,
                   info_best, last_emitted, agreed, poolHist>>

RpcFail ==
    /\ RpcPending
    /\ ret' = RetErr
    /\ pc' = "idle"
    /\ caught_up' = IF caught_up = "none" THEN "none" ELSE "no"
    /\ UNCHANGED <<scanVars, nodeVars, emitterVars, res, walk, start_hash, entries,
                   info_best, last_emitted, agreed, poolHist>>

\* ------------------------------------------------------------------ mempool
\* A transaction enters the node's mempool: its first-seen time is the node's
\* clock, its height the height of the best chain at that moment.
AddTx(t) ==
    /\ ~pool[t].in
    /\ pool' = [pool EXCEPT ![t] = [in |-> TRUE, time |-> now, height |-> TipHeight]]
    /\ UNCHANGED <<blk, best, now, scanVars, emitterVars, callVars, histVars>>

\* A transaction leaves the mempool (confirmed in a block, or evicted).
DropTx(t) ==
    /\ pool[t].in
    /\ pool' = [pool EXCEPT ![t] = NoEntry]
    /\ emitted_txs' = emitted_txs \ {t}
    /\ reorg_below' = reorg_below \ {t}
    /\ emitted_on_best' = emitted_on_best \ {t}
    /\ UNCHANGED <<blk, best, now, scanVars, emitterVars, callVars, chainHist, emitted_ever,
                   low, mempool_called>>

Tick ==
    /\ now < MaxTime
    /\ now' = now + 1
    /\ UNCHANGED <<blk, best, pool, scanVars, emitterVars, callVars, histVars>>

\* start_height.saturating_sub(1)
SaturatingSub1(n) == IF n = 0 THEN 0 ELSE n - 1

\* Emitter::mempool: the emitted tip height during the last mempool emission.
PrevMempoolTip ==
    IF last_mempool_tip # NoHeight THEN last_mempool_tip
    ELSE SaturatingSub1(start_height)

Max(a, b) == IF a >= b THEN a ELSE b

\* (mutant) latest_time starts from 0 and not from the previous value.
LatestTime_Reset(prev, T) ==
    IF T = {} THEN 0
    ELSE CHOOSE m \in {entries[t].time : t \in T} :
             \A t \in T : entries[t].time <= m

RECURSIVE LatestTime(_, _)
\* Emitter::mempool: latest_time after visiting the entries of the txids in T.
LatestTime(prev, T) ==
    IF T = {} THEN prev
    ELSE LET t == CHOOSE x \in T : TRUE
         IN LatestTime(Max(prev, entries[t].time), T \ {t})

\* (mutant) a transaction first seen exactly at prev_time counts as new.
IsSkipped_Strict(e, prev_time, prev_tip) ==
    e.time < prev_time /\ e.height <= prev_tip

\* (mutant) the originally-seen height is not looked at.
IsSkipped_TimeOnly(e, prev_time, prev_tip) == e.time <= prev_time

\* (mutant) an entry is skipped when it is old or within the height.
IsSkipped_Either(e, prev_time, prev_tip) ==
    e.time <= prev_time \/ e.height <= prev_tip

\* Emitter::mempool: the entry is filtered out without being fetched.
IsSkipped(e, prev_time, prev_tip) ==
    LET is_already_emitted == e.time <= prev_time
        is_within_height == e.height <= prev_tip
    IN is_already_emitted /\ is_within_height

\* The txids of the get_raw_mempool_verbose response.
InEntries == {t \in DOMAIN entries : entries[t].in}

\* The entries that mempool() does not filter out ...
ToFetch ==
    {t \in InEntries : ~IsSkipped(entries[t], last_mempool_time, PrevMempoolTip)}

\* (mutant) one transaction that left the mempool empties the result.
Fetched_NoneOnMiss == IF \A t \in ToFetch : pool[t].in THEN ToFetch ELSE {}

\* ... and those of them whose get_raw_transaction succeeds: the others left
\* the mempool since get_raw_mempool_verbose and fail with error -5.
Fetched == {t \in ToFetch : pool[t].in}

\* History: the fetched transactions that did not leave and re-enter the
\* mempool since get_raw_mempool_verbose.
FetchedInPlace == {t \in Fetched : pool[t] = entries[t]}

\* Emitter::mempool: the tip committed after collection.
CommitTip(cp) == IF cp = <<>> THEN NoHeight ELSE CpHeight(cp)

\* Emitter::mempool up to the response of get_raw_mempool_verbose (ret keeps
\* the result of the previous call until this one returns).
CallMempool ==
    /\ pc = "idle"
    /\ pc' = "mempool"
    /\ entries' = pool
    /\ UNCHANGED <<scanVars, nodeVars, emitterVars, res, walk, start_hash, ret, histVars>>

\* Emitter::mempool: the filter, the get_raw_transaction calls and the commit,
\* returning Ok.
Mempool ==
    /\ pc = "mempool"
    /\ pc' = "idle"
    /\ last_mempool_time' = LatestTime(last_mempool_time, InEntries)
    /\ last_mempool_tip' = CommitTip(last_cp)
    /\ ret' = RetMempool(Fetched)
    /\ entries' = NoEntries
    /\ emitted_ever' = emitted_ever \cup Fetched
    /\ emitted_txs' = emitted_txs \cup FetchedInPlace
    /\ low' = [t \in DOMAIN low |-> IF t \in Fetched THEN NoHeight ELSE low[t]]
    /\ reorg_below' = {}
    /\ mempool_called' = TRUE
    /\ emitted_on_best' = IF CpIds(last_cp) \subseteq ChainIds(best)
                          THEN emitted_on_best \cup FetchedInPlace
                          ELSE emitted_on_best \ Fetched
    /\ UNCHANGED <<scanVars, nodeVars, start_height, last_cp, last_block, res, walk,
                   start_hash, chainHist>>

\* Emitter::mempool, returning Err: get_raw_mempool_verbose or a
\* get_raw_transaction failed with an error other than -5; nothing is committed.
MempoolFail ==
    /\ pc = "mempool"
    /\ pc' = "idle"
    /\ ret' = RetErr
    /\ entries' = NoEntries
    /\ UNCHANGED <<scanVars, nodeVars, emitterVars, res, walk, start_hash, histVars>>

\* ------------------------------------------------------------------ specification
ChainStep(max_blocks, max_height) ==
    \/ MineBlock(max_blocks, max_height)
    \/ InvalidateBlock

PoolStep ==
    \/ \E t \in DOMAIN pool : AddTx(t)
    \/ \E t \in DOMAIN pool : DropTx(t)
    \/ Tick

Construct ==
    \/ \E s \in 0..MaxStart : FromHeight(s)
    \/ \E S \in (SUBSET (0..TipHeight)) \ {{}} : FromCheckpoint(S)

PollStep ==
    \/ CallNext
    \/ PollCached
    \/ PollStartHash
    \/ PollStartInfo
    \/ PollWalk
    \/ GetItem

MempoolStep == CallMempool \/ Mempool

\* The block emitter against a node that mines and reorgs; every RPC answers
\* (with an error only where the node itself refuses the request).
NextChain == ChainStep(MaxBlocks, MaxHeight) \/ Construct \/ PollStep
SpecChain == Init /\ [][NextChain]_vars

\* ... and RPCs may also fail in transport.
NextChainErr == NextChain \/ RpcFail
SpecChainErr == Init /\ [][NextChainErr]_vars

\* Block emitter and mempool emitter together.
Next ==
    \/ ChainStep(MaxPoolBlocks, MaxPoolHeight)
    \/ Construct
    \/ PollStep
    \/ PoolStep
    \/ MempoolStep
Spec == Init /\ [][Next]_vars

NextErr == Next \/ RpcFail \/ MempoolFail
SpecErr == Init /\ [][NextErr]_vars

\* Every call of the emitter, failing RPCs included, against a node that mines
\* and reorgs and whose mempool gets transactions.
NextCalls ==
    \/ ChainStep(MaxPoolBlocks, MaxPoolHeight)
    \/ Construct
    \/ PollStep
    \/ RpcFail
    \/ \E t \in DOMAIN pool : AddTx(t)
    \/ MempoolStep
    \/ MempoolFail
SpecCalls == Init /\ [][NextCalls]_vars

\* Block emitter and mempool emitter together, against a node whose chain
\* grows and whose mempool gains and loses transactions as time passes;
\* mempool() may fail.
NextMempoolErr ==
    \/ MineBlock(MaxPoolBlocks, MaxPoolHeight)
    \/ Construct
    \/ PollStep
    \/ PoolStep
    \/ MempoolStep
    \/ MempoolFail
SpecMempoolErr == Init /\ [][NextMempoolErr]_vars

\* A node whose best chain never changes (blocks 1..n at heights 0..n-1) and an
\* emitter built by from_height(s) with s at most the tip height.
InitStatic ==
    /\ ScanOff
    /\ \E n \in 1..(MaxHeight + 1) :
          /\ blk = [i \in 1..n |-> [height |-> i - 1, prev |-> i - 1]]
          /\ best = [i \in 1..n |-> i]
          /\ start_height \in 0..(n - 1)
    /\ pool = [t \in Txs |-> NoEntry]
    /\ now = 1
    /\ last_cp = <<>>
    /\ last_block = NoBlock
    /\ last_mempool_time = 0
    /\ last_mempool_tip = NoHeight
    /\ pc = "idle"
    /\ res = NoBlock
    /\ walk = 0
    /\ start_hash = NoHash
    /\ ret = NoRet
    /\ entries = NoEntries
    /\ info_best = <<>>
    /\ last_emitted = NoHeight
    /\ agreed = NoHeight
    /\ caught_up = "no"
    /\ emitted_ever = {}
    /\ emitted_txs = {}
    /\ low = [t \in Txs |-> NoHeight]
    /\ reorg_below = {}
    /\ mempool_called = FALSE
    /\ emitted_on_best = {}

SpecStatic == InitStatic /\ [][PollStep]_vars


\* The node's best chain changes only between next_* calls: a running call
\* sees one best chain.  A running call always takes its next step (the loop
\* of poll is sequential code and the node answers every request).
NextQuiet ==
    \/ pc \in {"new", "idle"} /\ ChainStep(MaxBlocks, MaxHeight)
    \/ Construct
    \/ PollStep
    \/ RpcFail
SpecQuiet == Init /\ [][NextQuiet]_vars /\ WF_vars(pc # "idle" /\ PollStep)

\* ------------------------------------------------------------------ Electrum server
\* blockchain.scripthash.get_history of script i: its transaction with the
\* height of the best-chain block that holds it, 0 while it is unconfirmed.
HistHeight(t) ==
    IF \E h \in 1..Len(best) : <<t, best[h]>> \in block_txs
    THEN (CHOOSE h \in 1..Len(best) : <<t, best[h]>> \in block_txs) - 1
    ELSE 0

History(i) ==
    IF i \in active THEN <<[tx_hash |-> i, height |-> HistHeight(i)]>> ELSE <<>>

\* blockchain.transaction.get_merkle(txid, height) answers when the best-chain
\* block at that height holds the transaction, with a proof made from that block.
MerkleOk(t, height) ==
    /\ height >= 0
    /\ height + 1 <= Len(best)
    /\ <<t, best[height + 1]>> \in block_txs

MerkleRes(height) == [block_height |-> height, block |-> best[height + 1]]

\* blockchain.block.header(height) answers for the heights of the best chain.
HeaderOk(height) == height >= 0 /\ height + 1 <= Len(best)
HeaderHash(height) == best[height + 1]

\* ------------------------------------------------------------------ Electrum scan
\* What populate_with_spks leaves alone; the same but for the txids of the
\* request.
outerVars == <<emitterSide, outpointVars, callerVars, tipVars, elCall, elHist>>
outerButTxids ==
    <<emitterSide, outpointVars, callerVars,
      tipVars, el_op, el_pc, tip_round, chain_update_tip, elHist>>

\* (mutant) the scan stops at the stop_gap-th unused script.
GapExceeded_AtGap(count, gap) == count >= gap

\* populate_with_spks: unused_spk_count > stop_gap.
GapExceeded(count, gap) == count > gap

\* populate_with_spks: the next batch_size items of the spks iterator.
NextBatch ==
    [j \in 1..(IF next_spk + batch_size <= MaxSpks
               THEN batch_size ELSE MaxSpks - next_spk) |-> next_spk + j - 1]

\* populate_with_spks, top of the loop: the batch is pulled; an empty batch
\* returns last_active_index, else the histories of the whole batch are requested.
PullBatch ==
    /\ scan_pc = "pull"
    /\ el_pc \in {"off", "spks"}
    /\ next_spk' = next_spk + Len(NextBatch)
    /\ IF NextBatch = <<>>
       THEN /\ scan_pc' = "done"
            /\ UNCHANGED <<batch, spk_histories, queried>>
       ELSE /\ scan_pc' = "process"
            /\ batch' = NextBatch
            /\ spk_histories' = [j \in 1..Len(NextBatch) |-> History(NextBatch[j])]
            /\ queried' = queried \cup {NextBatch[j] : j \in 1..Len(NextBatch)}
    /\ UNCHANGED <<indexVars, stop_gap, batch_size, unused_spk_count,
                   last_active_index, tx_res, merkle_res, graphVars, outerVars>>

\* populate_with_spks, the next script of the batch has an empty history.
ProcessUnused ==
    /\ scan_pc = "process"
    /\ Head(spk_histories) = <<>>
    /\ unused_spk_count' = unused_spk_count + 1
    /\ batch' = Tail(batch)
    /\ spk_histories' = Tail(spk_histories)
    /\ scan_pc' = IF GapExceeded(unused_spk_count', stop_gap) THEN "done"
                  ELSE IF batch' = <<>> THEN "pull" ELSE "process"
    /\ UNCHANGED <<indexVars, stop_gap, batch_size, next_spk, last_active_index,
                   queried, tx_res, merkle_res, graphVars, outerVars>>

\* populate_with_spks, the next script of the batch has a history: it becomes
\* the last active index and its history entry is handled next.
ProcessActive ==
    /\ scan_pc = "process"
    /\ Head(spk_histories) # <<>>
    /\ last_active_index' = Head(batch)
    /\ unused_spk_count' = 0
    /\ tx_res' = Head(spk_histories)[1]
    /\ batch' = Tail(batch)
    /\ spk_histories' = Tail(spk_histories)
    /\ scan_pc' = "fetch"
    /\ UNCHANGED <<indexVars, stop_gap, batch_size, next_spk, queried, merkle_res,
                   graphVars, outerVars>>

\* Where populate_with_spks continues after a history entry.
AfterTx == IF batch = <<>> THEN "pull" ELSE "process"

\* validate_merkle_for_anchor returns Ok: populate_with_spks goes on with the
\* batch; populate_with_txids inserts the transaction and goes on with the
\* next txid.
Validated ==
    IF el_pc = "txids"
    THEN /\ scan_pc' = "txid"
         /\ graph_txs' = graph_txs \cup {tx_res.tx_hash}
         /\ txids' = Tail(txids)
    ELSE /\ scan_pc' = AfterTx
         /\ UNCHANGED <<graph_txs, txids>>

\* transaction_get answers for the transactions the server knows; for any
\* other txid it returns a protocol error.
TransactionGetOk(t) == t \in active

\* (mutant) fetch_tx asks the server although the transaction is cached.
FetchTxHit_Get(t) ==
    /\ t \in tx_cache
    /\ tx_gets' = [tx_gets EXCEPT ![t] = @ + 1]
    /\ UNCHANGED tx_cache

\* fetch_tx, the txid is in the cache: the cached transaction is returned.
FetchTxHit(t) ==
    /\ t \in tx_cache
    /\ UNCHANGED <<tx_cache, tx_gets>>

\* fetch_tx, the txid is not in the cache and transaction_get answers: the
\* transaction enters the cache and is returned.
FetchTxGet(t) ==
    /\ t \notin tx_cache
    /\ TransactionGetOk(t)
    /\ tx_gets' = [tx_gets EXCEPT ![t] = @ + 1]
    /\ tx_cache' = tx_cache \cup {t}

\* fetch_tx, the txid is not in the cache and transaction_get returns a
\* protocol error: the error is returned.
FetchTxErr(t) ==
    /\ t \notin tx_cache
    /\ ~TransactionGetOk(t)
    /\ tx_gets' = [tx_gets EXCEPT ![t] = @ + 1]
    /\ UNCHANGED tx_cache

\* populate_with_spks: graph_update.insert_tx(self.fetch_tx(tx_hash)?).
InsertTx ==
    /\ scan_pc = "fetch"
    /\ FetchTxHit(tx_res.tx_hash) \/ FetchTxGet(tx_res.tx_hash)
    /\ graph_txs' = graph_txs \cup {tx_res.tx_hash}
    /\ scan_pc' = "merkle"
    /\ UNCHANGED <<indexVars, stop_gap, batch_size, next_spk, batch, spk_histories,
                   unused_spk_count, last_active_index, queried, tx_res, merkle_res,
                   anchors, outerVars>>

\* validate_merkle_for_anchor: transaction_get_merkle; an error of the server
\* ends the validation without an anchor.
GetMerkle ==
    /\ scan_pc = "merkle"
    /\ IF MerkleOk(tx_res.tx_hash, tx_res.height)
       THEN /\ merkle_res' = MerkleRes(tx_res.height)
            /\ scan_pc' = "header"
            /\ UNCHANGED <<graph_txs, txids>>
       ELSE /\ Validated
            /\ UNCHANGED merkle_res
    /\ UNCHANGED <<indexVars, stop_gap, batch_size, next_spk, batch, spk_histories,
                   unused_spk_count, last_active_index, queried, tx_res, tx_cache,
                   anchors, tx_gets, outerButTxids>>

\* (mutant) every proof is taken as valid.
ValidateMerkleProof_Any(header_hash, proof) == TRUE

\* validate_merkle_proof: the proof leads to the Merkle root of the header; every
\* block has a Merkle root of its own.
ValidateMerkleProof(header_hash, proof) == proof.block = header_hash

\* The anchor validate_merkle_for_anchor builds.
Anchor(t, proof, header_hash) ==
    [txid |-> t, height |-> proof.block_height, hash |-> header_hash]

\* validate_merkle_for_anchor: block_header(merkle_res.block_height)?, then the
\* proof is validated against the header and a valid one inserts the anchor.
GetHeader ==
    /\ scan_pc = "header"
    /\ IF HeaderOk(merkle_res.block_height)
       THEN /\ Validated
            /\ anchors' =
                 IF ValidateMerkleProof(HeaderHash(merkle_res.block_height), merkle_res)
                 THEN anchors \cup {Anchor(tx_res.tx_hash, merkle_res,
                                           HeaderHash(merkle_res.block_height))}
                 ELSE anchors
       ELSE /\ scan_pc' = "err"
            /\ UNCHANGED <<anchors, graph_txs, txids>>
    /\ UNCHANGED <<indexVars, stop_gap, batch_size, next_spk, batch, spk_histories,
                   unused_spk_count, last_active_index, queried, tx_res, merkle_res,
                   tx_cache, tx_gets, outerButTxids>>

PopulateWithSpks ==
    \/ PullBatch
    \/ ProcessUnused
    \/ ProcessActive
    \/ InsertTx
    \/ GetMerkle
    \/ GetHeader

\* A server whose chain is the genesis block and one block on top of it, which
\* holds the transactions of the active scripts with an even index (the others
\* are unconfirmed).
OneBlockServer ==
    /\ blk = <<[height |-> 0, prev |-> NoHash], [height |-> 1, prev |-> 1]>>
    /\ best = <<1, 2>>
    /\ pool = [t \in Txs |-> NoEntry]
    /\ now = 1
    /\ block_txs = {<<t, 2>> : t \in {i \in active : i % 2 = 0}}

\* A fresh scan of one keychain whose scripts 0..MaxSpks-1 are supplied in
\* index order, for every set of active scripts, stop_gap and batch_size.
InitScan ==
    /\ EmitterNew
    /\ active \in SUBSET (0..(MaxSpks - 1))
    /\ OneBlockServer
    /\ stop_gap \in 0..MaxStopGap
    /\ batch_size \in 0..MaxBatch
    /\ scan_pc = "pull"
    /\ ScanStart
    /\ NoOutpointScan
    /\ NoCallers
    /\ NewClient
    /\ NoCall

NextScan == PopulateWithSpks
SpecScan == InitScan /\ [][NextScan]_vars

\* ------------------------------------------------------------------ server's chain
\* The transactions of active scripts that no best-chain block holds.
Unconfirmed == {t \in active : HistHeight(t) = 0}

\* The server's node mines a block on top of the best chain; the block holds
\* the transactions T, which were unconfirmed.
ServerMine(T) ==
    /\ srv_steps < MaxSrvSteps
    /\ T \subseteq Unconfirmed
    /\ blk' = Append(blk, [height |-> Len(best), prev |-> best[Len(best)]])
    /\ best' = Append(best, Len(blk) + 1)
    /\ block_txs' = block_txs \cup {<<t, Len(blk) + 1>> : t \in T}
    /\ caught_up' = "no"
    /\ srv_steps' = srv_steps + 1
    /\ tip_quiet' = FALSE
    /\ UNCHANGED <<pool, now, emitterVars, callVars, info_best, last_emitted, agreed,
                   poolHist, active, scanLoop, graphVars, tipVars, elCall, hdr_reqs,
                   wallet, outpointVars, callerVars>>

\* The server's node invalidates the tip: its transactions are unconfirmed again.
ServerInvalidate ==
    /\ srv_steps < MaxSrvSteps
    /\ Len(best) > 1
    /\ best' = SubSeq(best, 1, Len(best) - 1)
    /\ caught_up' = "no"
    /\ srv_steps' = srv_steps + 1
    /\ tip_quiet' = FALSE
    /\ UNCHANGED <<blk, pool, now, emitterVars, callVars, info_best, last_emitted,
                   agreed, poolHist, indexVars, scanLoop, graphVars, tipVars, elCall,
                   hdr_reqs, wallet, outpointVars, callerVars>>

ServerStep ==
    \/ \E T \in {{}} \cup {{t} : t \in Unconfirmed} : ServerMine(T)
    \/ ServerInvalidate

\* ------------------------------------------------------------------ fetch_tip_and_latest_blocks
\* What fetch_tip_and_latest_blocks leaves alone.
tipOuter == <<emitterSide, outpointVars, callerVars,
              indexVars, scanLoop, graphVars, el_op, txids,
              chain_update_tip, srv_steps, wallet>>

SaturatingSub(a, b) == IF a > b THEN a - b ELSE 0

\* BTreeMap::insert, and the largest key (-1 for the empty map).
MapInsert(m, k, v) == [x \in DOMAIN m \cup {k} |-> IF x = k THEN v ELSE m[x]]
MaxKey(m) ==
    IF DOMAIN m = {} THEN -1 ELSE CHOOSE k \in DOMAIN m : \A x \in DOMAIN m : x <= k

\* Where the call of the client continues when fetch_tip_and_latest_blocks
\* returns: full_scan goes on to the scripts, sync's second fetch to the txids.
AfterTip ==
    IF el_op = "tip" THEN "done" ELSE IF tip_round = 0 THEN "spks" ELSE "txids"

\* (mutant) the server is never taken to be behind.
ServerBehind_Never(height) == FALSE

\* fetch_tip_and_latest_blocks: new_tip_height < prev_tip.height().
ServerBehind(height) == height < CpHeight(chain_tip)

\* fetch_tip_and_latest_blocks: block_headers_subscribe; a server tip below
\* prev_tip returns prev_tip and no blocks.
TipSubscribe ==
    /\ el_pc = "tip"
    /\ new_tip_height' = TipHeight
    /\ IF ServerBehind(TipHeight)
       THEN /\ new_tip' = chain_tip
            /\ latest_blocks' = NoBlocks
            /\ el_pc' = AfterTip
            /\ tip_round' = tip_round + 1
       ELSE /\ el_pc' = "headers"
            /\ UNCHANGED <<new_tip, latest_blocks, tip_round>>
    /\ UNCHANGED <<chain_tip, new_blocks, tip_walk, tip_quiet, hdr_reqs, tipOuter>>

\* The first height of the window of CHAIN_SUFFIX_LENGTH latest blocks.
SuffixStart(height) == SaturatingSub(height, CHAIN_SUFFIX_LENGTH - 1)

\* fetch_tip_and_latest_blocks: block_headers(start_height, CHAIN_SUFFIX_LENGTH)
\* answers with the headers the best chain has from start_height on.
TipHeaders ==
    /\ el_pc = "headers"
    /\ LET first == SuffixStart(new_tip_height)
           window == first..(first + CHAIN_SUFFIX_LENGTH - 1)
       IN /\ new_blocks' = [h \in {x \in window : HeaderOk(x)} |-> HeaderHash(h)]
          /\ hdr_reqs' = hdr_reqs \cup window
    /\ tip_walk' = Len(chain_tip)
    /\ el_pc' = "walk"
    /\ UNCHANGED <<chain_tip, new_tip_height, new_tip, latest_blocks, tip_round,
                   tip_quiet, tipOuter>>

RECURSIVE PushBlocks(_, _, _, _)
\* The fold that pushes the blocks at the heights h..top, in ascending order.
PushBlocks(cp, blocks, h, top) ==
    IF h > top THEN cp
    ELSE IF h \in DOMAIN blocks
    THEN PushBlocks(Push(cp, BlockId(h, blocks[h])), blocks, h + 1, top)
    ELSE PushBlocks(cp, blocks, h + 1, top)

\* (mutant) the new tip keeps the checkpoints of prev_tip above the agreement.
NewTip_KeepAll(agreement, blocks) ==
    PushBlocks(chain_tip, blocks, CpHeight(chain_tip) + 1, MaxKey(blocks))

\* (mutant) the blocks at and below the agreement height are pushed as well.
NewTip_NoFilter(agreement, blocks) ==
    PushBlocks(SubSeq(chain_tip, 1, agreement), blocks, 0, MaxKey(blocks))

\* fetch_tip_and_latest_blocks: the new tip is the agreement checkpoint
\* (prev_tip[agreement]; 0: none) with every block above its height pushed on.
NewTip(agreement, blocks) ==
    PushBlocks(SubSeq(chain_tip, 1, agreement), blocks,
               IF agreement = 0 THEN 0 ELSE chain_tip[agreement].height + 1,
               MaxKey(blocks))

\* fetch_tip_and_latest_blocks returns the new tip and the blocks.
TipReturn(agreement, blocks) ==
    IF NewTip(agreement, blocks) = <<>>
    THEN /\ el_pc' = "panic"
         /\ UNCHANGED <<new_tip, latest_blocks, tip_round>>
    ELSE /\ new_tip' = NewTip(agreement, blocks)
         /\ latest_blocks' = blocks
         /\ el_pc' = AfterTip
         /\ tip_round' = tip_round + 1

\* fetch_tip_and_latest_blocks, one round of the search for the agreement
\* point: the hash at the checkpoint's height comes from new_blocks or from
\* block_header(height)?, which enters new_blocks; equal hashes end the search.
TipWalk ==
    /\ el_pc = "walk"
    /\ LET cp == chain_tip[tip_walk]
           cached == cp.height \in DOMAIN new_blocks
           hash == IF cached THEN new_blocks[cp.height] ELSE HeaderHash(cp.height)
           blocks == IF cached THEN new_blocks ELSE MapInsert(new_blocks, cp.height, hash)
       IN IF ~cached /\ new_tip_height < cp.height
          THEN /\ el_pc' = "panic"
               /\ UNCHANGED <<new_blocks, tip_walk, new_tip, latest_blocks, tip_round,
                              hdr_reqs>>
          ELSE IF ~cached /\ ~HeaderOk(cp.height)
          THEN /\ el_pc' = "err"
               /\ hdr_reqs' = hdr_reqs \cup {cp.height}
               /\ UNCHANGED <<new_blocks, tip_walk, new_tip, latest_blocks, tip_round>>
          ELSE /\ new_blocks' = blocks
               /\ hdr_reqs' = IF cached THEN hdr_reqs ELSE hdr_reqs \cup {cp.height}
               /\ IF hash = cp.hash
                  THEN TipReturn(tip_walk, blocks) /\ UNCHANGED tip_walk
                  ELSE IF tip_walk = 1
                  THEN TipReturn(0, blocks) /\ UNCHANGED tip_walk
                  ELSE /\ tip_walk' = tip_walk - 1
                       /\ UNCHANGED <<el_pc, new_tip, latest_blocks, tip_round>>
    /\ UNCHANGED <<chain_tip, new_tip_height, tip_quiet, tipOuter>>

FetchTipAndLatestBlocks == TipSubscribe \/ TipHeaders \/ TipWalk

\* A server chain of n blocks: block i at height i - 1.
ServerChain(n) ==
    /\ blk = [i \in 1..n |-> [height |-> i - 1, prev |-> i - 1]]
    /\ best = [i \in 1..n |-> i]
    /\ pool = [t \in Txs |-> NoEntry]
    /\ now = 1

\* The hash of a block at height h that the server does not store.
StaleHash(h) == 0 - (h + 1)

\* The checkpoint chain over the heights H, whose checkpoints at the heights X
\* and above the tip of a server chain of n blocks hold stale hashes.
RECURSIVE TipOver(_, _, _, _)
TipOver(H, X, n, h) ==
    IF h < 0 THEN <<>>
    ELSE IF h \in H
    THEN Append(TipOver(H, X, n, h - 1),
                BlockId(h, IF h \in X \/ h >= n THEN StaleHash(h) ELSE h + 1))
    ELSE TipOver(H, X, n, h - 1)

\* The caller's chain tips: at most MaxCps checkpoints at heights up to
\* MaxElHeight, each either a block of the server's chain or a stale one.
PrevTips(n) ==
    {TipOver(H, X, n, MaxElHeight) :
        <<H, X>> \in {hx \in (SUBSET (0..MaxElHeight)) \X (SUBSET (0..MaxElHeight)) :
                        /\ hx[1] # {}
                        /\ Cardinality(hx[1]) <= MaxCps
                        /\ hx[2] \subseteq {h \in hx[1] : h < n}}}

\* A call of fetch_tip_and_latest_blocks begins.
TipStart ==
    /\ new_tip_height = 0
    /\ new_blocks = NoBlocks
    /\ tip_walk = 0
    /\ new_tip = <<>>
    /\ latest_blocks = NoBlocks
    /\ el_pc = "tip"
    /\ tip_round = 0
    /\ chain_update_tip = <<>>
    /\ srv_steps = 0
    /\ tip_quiet = TRUE
    /\ hdr_reqs = {}
    /\ wallet = NoWallet

\* fetch_tip_and_latest_blocks by itself, for every server chain and every tip
\* of the caller, against a server whose chain changes between the requests.
InitTip ==
    /\ EmitterNew
    /\ \E n \in 1..(MaxElHeight + 1) :
          /\ ServerChain(n)
          /\ chain_tip \in PrevTips(n)
    /\ active = {}
    /\ block_txs = {}
    /\ stop_gap = 0
    /\ batch_size = 0
    /\ scan_pc = "off"
    /\ ScanStart
    /\ NoOutpointScan
    /\ NoCallers
    /\ NewClient
    /\ el_op = "tip"
    /\ txids = <<>>
    /\ TipStart

NextTip == FetchTipAndLatestBlocks \/ ServerStep
SpecTip == InitTip /\ [][NextTip]_vars

\* ------------------------------------------------------------------ chain_update
\* CheckPoint::get(height).is_some().
CpGet(cp, h) == \E i \in 1..Len(cp) : cp[i].height = h

RECURSIVE CpInsert(_, _)
\* CheckPoint::insert of a block at a height that has no checkpoint.
CpInsert(cp, id) ==
    IF cp = <<>> \/ CpHeight(cp) < id.height THEN Append(cp, id)
    ELSE Append(CpInsert(SubSeq(cp, 1, Len(cp) - 1), id), cp[Len(cp)])

\* (mutant) no anchor gets a checkpoint.
NeedsCp_None(t, ancs) == {}

\* chain_update: the anchor heights that get a checkpoint, those without one
\* that are not above the tip.
NeedsCp(t, ancs) ==
    {a.height : a \in {x \in ancs : ~CpGet(t, x.height) /\ x.height <= CpHeight(t)}}

\* (mutant) the checkpoint always takes the hash of an anchor at its height.
CpHashes_Anchor(h, blocks, ancs) == {a.hash : a \in {x \in ancs : x.height = h}}

\* chain_update: the hash of the checkpoint at height h comes from
\* latest_blocks, else from the first anchor at that height (the anchors are
\* ordered by their confirmation time, which the model leaves open).
CpHashes(h, blocks, ancs) ==
    IF h \in DOMAIN blocks THEN {blocks[h]}
    ELSE {a.hash : a \in {x \in ancs : x.height = h}}

RECURSIVE InsertAll(_, _, _, _)
InsertAll(cp, f, h, top) ==
    IF h > top THEN cp
    ELSE IF h \in DOMAIN f
    THEN InsertAll(CpInsert(cp, BlockId(h, f[h])), f, h + 1, top)
    ELSE InsertAll(cp, f, h + 1, top)

\* The chain updates chain_update may return.
ChainUpdates(t, blocks, ancs) ==
    {InsertAll(t, f, 0, CpHeight(t)) :
        f \in {g \in [NeedsCp(t, ancs) -> {a.hash : a \in ancs} \cup
                                          {blocks[h] : h \in DOMAIN blocks}] :
                 \A h \in NeedsCp(t, ancs) : g[h] \in CpHashes(h, blocks, ancs)}}

\* ------------------------------------------------------------------ full_scan and sync
\* (mutant) sync passes the stop gap of a full scan.
NoStopGap_Gap == MaxStopGap

\* usize::MAX as stop_gap: a gap no count of the supplied scripts exceeds.
NoStopGap == MaxSpks

\* (mutant) the count of unused scripts is not reset.
PopulateWithSpksEntry_KeepCount ==
    /\ scan_pc' = "pull"
    /\ next_spk' = 0
    /\ batch' = <<>>
    /\ spk_histories' = <<>>
    /\ UNCHANGED unused_spk_count
    /\ last_active_index' = NoIndex
    /\ queried' = {}
    /\ tx_res' = NoTx
    /\ merkle_res' = NoMerkle

\* populate_with_spks is entered: its locals are fresh.
PopulateWithSpksEntry ==
    /\ scan_pc' = "pull"
    /\ next_spk' = 0
    /\ batch' = <<>>
    /\ spk_histories' = <<>>
    /\ unused_spk_count' = 0
    /\ last_active_index' = NoIndex
    /\ queried' = {}
    /\ tx_res' = NoTx
    /\ merkle_res' = NoMerkle

\* full_scan begins: fetch_tip_and_latest_blocks is called with the request's
\* chain tip, the graph update and the locals of populate_with_spks are fresh.
CallStart ==
    /\ el_pc = "idle"
    /\ el_pc' = "tip"
    /\ tip_round' = 0
    /\ new_tip_height' = 0
    /\ new_blocks' = NoBlocks
    /\ tip_walk' = 0
    /\ new_tip' = <<>>
    /\ latest_blocks' = NoBlocks
    /\ chain_update_tip' = <<>>
    /\ graph_txs' = {}
    /\ anchors' = {}
    /\ PopulateWithSpksEntry
    /\ tip_quiet' = TRUE
    /\ hdr_reqs' = {}
    /\ UNCHANGED <<emitterSide, outpointVars, callerVars,
                   indexVars, batch_size, tx_cache, tx_gets, chain_tip,
                   srv_steps, wallet>>

\* full_scan(request, stop_gap, batch_size, fetch_prev_txouts).
CallFullScan ==
    /\ CallStart
    /\ el_op' = "full_scan"
    /\ txids' = <<>>
    /\ UNCHANGED stop_gap

\* sync(request, batch_size, fetch_prev_txouts) of a request with the txids ids
\* and no outpoints: full_scan with stop_gap usize::MAX comes first.
CallSync(ids) ==
    /\ CallStart
    /\ el_op' = "sync"
    /\ txids' = ids
    /\ stop_gap' = NoStopGap

\* sync: full_scan has returned Ok (its chain update is dropped) and
\* fetch_tip_and_latest_blocks is called again.
SyncFetchTip ==
    /\ el_op = "sync"
    /\ el_pc = "spks"
    /\ scan_pc = "done"
    /\ el_pc' = "tip"
    /\ scan_pc' = "txid"
    /\ new_tip_height' = 0
    /\ new_blocks' = NoBlocks
    /\ tip_walk' = 0
    /\ new_tip' = <<>>
    /\ latest_blocks' = NoBlocks
    /\ tip_quiet' = TRUE
    /\ hdr_reqs' = {}
    /\ UNCHANGED <<emitterSide, outpointVars, callerVars,
                   indexVars, stop_gap, batch_size, next_spk, batch,
                   spk_histories, unused_spk_count, last_active_index, queried,
                   tx_res, merkle_res, graphVars, chain_tip, el_op, tip_round, txids,
                   chain_update_tip, srv_steps, wallet>>

\* populate_with_txids: fetch_tx of the next txid; a protocol error skips the
\* txid.
TxidFetch ==
    /\ el_pc = "txids"
    /\ scan_pc = "txid"
    /\ txids # <<>>
    /\ \/ /\ FetchTxHit(Head(txids)) \/ FetchTxGet(Head(txids))
          /\ tx_res' = [tx_hash |-> Head(txids), height |-> 0]
          /\ scan_pc' = "txid_hist"
          /\ UNCHANGED txids
       \/ /\ FetchTxErr(Head(txids))
          /\ txids' = Tail(txids)
          /\ UNCHANGED <<tx_res, scan_pc>>
    /\ UNCHANGED <<indexVars, stop_gap, batch_size, next_spk, batch, spk_histories,
                   unused_spk_count, last_active_index, queried, merkle_res,
                   graph_txs, anchors, outerButTxids>>

\* populate_with_txids: script_get_history of the transaction's first output;
\* the entry of the txid, if there is one, is validated; the transaction is
\* inserted in the end.
TxidHistory ==
    /\ el_pc = "txids"
    /\ scan_pc = "txid_hist"
    /\ IF History(tx_res.tx_hash) # <<>>
       THEN /\ tx_res' = History(tx_res.tx_hash)[1]
            /\ scan_pc' = "merkle"
            /\ UNCHANGED <<graph_txs, txids>>
       ELSE /\ scan_pc' = "txid"
            /\ graph_txs' = graph_txs \cup {tx_res.tx_hash}
            /\ txids' = Tail(txids)
            /\ UNCHANGED tx_res
    /\ UNCHANGED <<indexVars, stop_gap, batch_size, next_spk, batch, spk_histories,
                   unused_spk_count, last_active_index, queried, merkle_res,
                   tx_cache, anchors, tx_gets, outerButTxids>>

PopulateWithTxids == TxidFetch \/ TxidHistory

\* full_scan after populate_with_spks, sync after populate_with_txids and
\* populate_with_outpoints: chain_update, then fetch_prev_txout if asked for.
ChainUpdate ==
    /\ \/ el_op = "full_scan" /\ el_pc = "spks" /\ scan_pc = "done"
       \/ el_pc = "txids" /\ scan_pc = "txid" /\ txids = <<>>
    /\ chain_update_tip' \in ChainUpdates(new_tip, latest_blocks, anchors)
    /\ \E fetch_prev_txouts \in BOOLEAN :
          el_pc' = IF fetch_prev_txouts THEN "prev_txout" ELSE "done"
    /\ UNCHANGED <<emitterSide, outpointVars, callerVars,
                   indexVars, scanLoop, graphVars, tipVars, el_op,
                   tip_round, txids, elHist>>

\* fetch_prev_txout: the transactions of the model spend no output of
\* another transaction, so nothing is fetched.
FetchPrevTxout ==
    /\ el_pc = "prev_txout"
    /\ el_pc' = "done"
    /\ UNCHANGED <<emitterSide, outpointVars, callerVars,
                   indexVars, scanLoop, graphVars, tipVars, el_op,
                   tip_round, txids, chain_update_tip, elHist>>

\* The chain tips of the requests: a checkpoint at height 0 and possibly one at
\* height 1, at the server's tip or above it, the highest possibly stale.
ClientTips(n) ==
    {TipOver(H, X, n, MaxElHeight) :
        <<H, X>> \in {hx \in {{0}, {0, 1}, {0, n - 1}, {0, n}} \X {{}, {1}, {n - 1}} :
                        /\ hx[2] \subseteq hx[1]
                        /\ \A h \in hx[1] : h <= MaxElHeight}}

\* The txids of the SyncRequests: none, a known one, an unknown and a known one.
TxidLists == {<<>>, <<0>>, <<MaxSpks - 1, 0>>}

\* A client and a server: a short or a long chain, one or two active scripts
\* whose transactions are unconfirmed, in the block at height 1 or in the tip.
InitClient ==
    /\ EmitterNew
    /\ active \in {{0}, {1}, {0, 1}}
    /\ \E n \in {2, MaxElHeight + 1} :
          /\ ServerChain(n)
          /\ chain_tip \in ClientTips(n)
          /\ block_txs \in SUBSET {<<t, b>> \in {<<0, 2>>, <<1, n>>} : t \in active}
    /\ stop_gap \in {0, MaxStopGap}
    /\ batch_size \in {1, MaxBatch}
    /\ scan_pc = "off"
    /\ ScanStart
    /\ NoOutpointScan
    /\ NoCallers
    /\ NewClient
    /\ el_op = "none"
    /\ el_pc = "idle"
    /\ txids = <<>>
    /\ new_tip_height = 0
    /\ new_blocks = NoBlocks
    /\ tip_walk = 0
    /\ new_tip = <<>>
    /\ latest_blocks = NoBlocks
    /\ tip_round = 0
    /\ chain_update_tip = <<>>
    /\ srv_steps = 0
    /\ tip_quiet = FALSE
    /\ hdr_reqs = {}
    /\ wallet = NoWallet

ClientStep ==
    \/ FetchTipAndLatestBlocks
    \/ PopulateWithSpks
    \/ SyncFetchTip
    \/ PopulateWithTxids
    \/ ChainUpdate
    \/ FetchPrevTxout

NextClient ==
    \/ CallFullScan
    \/ \E ids \in TxidLists : CallSync(ids)
    \/ ClientStep
    \/ ServerStep
SpecClient == InitClient /\ [][NextClient]_vars

\* The caller merges a result into its chain and its graph, as the tests do
\* with apply_update, and is ready to scan again from the tip of its chain.
ApplyUpdate ==
    /\ el_pc = "done"
    /\ wallet.scans < MaxScans
    /\ el_pc' = "idle"
    /\ chain_tip' = chain_update_tip
    /\ wallet' = [scans |-> wallet.scans + 1,
                  last_active_index |-> last_active_index,
                  anchors |-> wallet.anchors \cup anchors]
    /\ UNCHANGED <<emitterSide, outpointVars, callerVars,
                   indexVars, scanLoop, graphVars, new_tip_height,
                   new_blocks, tip_walk, new_tip, latest_blocks, el_op, tip_round,
                   txids, chain_update_tip, srv_steps, tip_quiet, hdr_reqs>>

\* Full scans one after the other, each merged, of a server that does not change.
NextRescan ==
    \/ CallFullScan
    \/ FetchTipAndLatestBlocks
    \/ PopulateWithSpks
    \/ ChainUpdate
    \/ FetchPrevTxout
    \/ ApplyUpdate
SpecRescan == InitClient /\ [][NextRescan]_vars

\* chain_update by itself, for every tip of up to MaxHeight + 1 checkpoints,
\* every window of latest blocks below the top height and every set of up to
\* two anchors of a transaction, at heights up to one above the top; the
\* hashes are those of one chain or stale ones.
InitChainUpdate ==
    /\ EmitterNew
    /\ ServerChain(1)
    /\ active = {}
    /\ block_txs = {}
    /\ stop_gap = 0
    /\ batch_size = 0
    /\ scan_pc = "done"
    /\ ScanStart
    /\ NoOutpointScan
    /\ NoCallers
    /\ tx_cache = {}
    /\ tx_gets = [t \in 0..(MaxSpks - 1) |-> 0]
    /\ \E H \in (SUBSET (0..MaxHeight)) \ {{}} : \E X \in SUBSET H :
          new_tip = TipOver(H, X, MaxHeight + 1, MaxHeight)
    /\ chain_tip = new_tip
    /\ \E lo \in 0..(MaxHeight + 1) :
          \E Y \in {S \in SUBSET (lo..MaxHeight) : Cardinality(S) <= 1} :
             latest_blocks = [h \in lo..MaxHeight |->
                                 IF h \in Y THEN StaleHash(h) ELSE h + 1]
    /\ new_blocks = latest_blocks
    /\ anchors \in {A \in SUBSET {[txid |-> 0, height |-> hs[1],
                                     hash |-> IF hs[2] THEN StaleHash(hs[1])
                                              ELSE hs[1] + 1] :
                                     hs \in (0..(MaxHeight + 1)) \X BOOLEAN} :
                       Cardinality(A) <= 2}
    /\ graph_txs = {a.txid : a \in anchors}
    /\ new_tip_height = CpHeight(new_tip)
    /\ tip_walk = 0
    /\ el_op = "full_scan"
    /\ el_pc = "spks"
    /\ tip_round = 1
    /\ txids = <<>>
    /\ chain_update_tip = <<>>
    /\ srv_steps = 0
    /\ tip_quiet = TRUE
    /\ hdr_reqs = {}
    /\ wallet = NoWallet

SpecChainUpdate == InitChainUpdate /\ [][ChainUpdate \/ FetchPrevTxout]_vars

\* ------------------------------------------------------------------ fetching transactions
\* populate_tx_cache: the transactions S of the supplied graph enter the cache.
PopulateTxCache(S) ==
    /\ el_pc = "idle"
    /\ ~(S \subseteq tx_cache)
    /\ tx_cache' = tx_cache \cup S
    /\ UNCHANGED <<emitterSide, outpointVars, callerVars,
                   indexVars, scanLoop, graph_txs, anchors, tx_gets,
                   tipVars, elCall, elHist>>

\* populate_with_txids: fetch_tx fails with an error that is not a protocol
\* error (transaction_get did not answer), and the error is returned.
TxidFetchFail ==
    /\ el_pc = "txids"
    /\ scan_pc = "txid"
    /\ txids # <<>>
    /\ Head(txids) \notin tx_cache
    /\ tx_gets' = [tx_gets EXCEPT ![Head(txids)] = @ + 1]
    /\ el_pc' = "err"
    /\ UNCHANGED <<emitterSide, outpointVars, callerVars,
                   indexVars, scanLoop, tx_cache, graph_txs, anchors,
                   tipVars, el_op, tip_round, txids, chain_update_tip, elHist>>

\* An Emitter made by from_height(0), of a node at genesis whose mempool will
\* hold up to MaxFetchTxs transactions; no Electrum client.
InitMempool ==
    /\ ScanOff
    /\ blk = <<[height |-> 0, prev |-> NoHash]>>
    /\ best = <<1>>
    /\ pool = [t \in 1..MaxFetchTxs |-> NoEntry]
    /\ now = 1
    /\ start_height = 0
    /\ last_cp = <<>>
    /\ last_block = NoBlock
    /\ last_mempool_time = 0
    /\ last_mempool_tip = NoHeight
    /\ pc = "idle"
    /\ res = NoBlock
    /\ walk = 0
    /\ start_hash = NoHash
    /\ ret = NoRet
    /\ entries = NoEntries
    /\ info_best = <<>>
    /\ last_emitted = NoHeight
    /\ agreed = NoHeight
    /\ caught_up = "no"
    /\ emitted_ever = {}
    /\ emitted_txs = {}
    /\ low = [t \in 1..MaxFetchTxs |-> NoHeight]
    /\ reorg_below = {}
    /\ mempool_called = FALSE
    /\ emitted_on_best = {}

\* Either that Emitter, or an Electrum client of a server with a short chain
\* and no Emitter.
InitFetch ==
    \/ InitMempool
    \/ /\ InitClient
       /\ Len(best) = 2
       /\ stop_gap = 0
       /\ batch_size = MaxBatch

\* mempool() of the Emitter and sync of the client, whose fetches of
\* transactions may fail.
NextFetch ==
    \/ PoolStep
    \/ MempoolStep
    \/ MempoolFail
    \/ \E S \in (SUBSET {0, MaxSpks - 1}) \ {{}} : PopulateTxCache(S)
    \/ \E ids \in TxidLists : CallSync(ids)
    \/ ClientStep
    \/ TxidFetchFail
SpecFetch == InitFetch /\ [][NextFetch]_vars


\* ------------------------------------------------------------------ populate_with_outpoints
\* The transactions of the server and the outpoints of a request: outputs of
\* transaction 0, which all pay to one script, the last index being out of range.
OpTxids == 0..(MaxOpTxs - 1)
Outpoints == {<<0, v>> : v \in 0..MaxVout}

\* The histories the server may return: distinct transactions in some order,
\* each with the height of its block.
ScriptHistories ==
    {[j \in 1..Len(s) |-> [tx_hash |-> s[j], height |-> HistHeight(s[j])]] :
        s \in {q \in UNION {[1..n -> OpTxids] : n \in 0..MaxOpTxs} :
                  \A i, j \in 1..Len(q) : i # j => q[i] # q[j]}}

\* validate_merkle_for_anchor returns an error: block_header fails.
ValidateErr(t, height) == MerkleOk(t, height) /\ ~HeaderOk(height)

\* The anchors of graph_update after validate_merkle_for_anchor returned Ok, on
\* a server whose chain does not change during the call.
ValidateMerkleForAnchor(t, height) ==
    IF MerkleOk(t, height)
          /\ ValidateMerkleProof(HeaderHash(height), MerkleRes(height))
    THEN anchors \cup {Anchor(t, MerkleRes(height), HeaderHash(height))}
    ELSE anchors

\* (mutant) an input spends the outpoint when it spends an output of its
\* transaction.
SpendsOutpoint_AnyVout(t, op) == \E i \in op_txs[t].inputs : i[1] = op[1]

\* res_tx.input.iter().any(|txin| txin.previous_output == outpoint)
SpendsOutpoint(t, op) == op \in op_txs[t].inputs

\* graph_update.insert_tx(tx), then validate_merkle_for_anchor(graph_update,
\* res.tx_hash, res.height)? for the history entry r.
InsertAndValidate(r) ==
    /\ graph_txs' = graph_txs \cup {r.tx_hash}
    /\ op_inserted' = Append(op_inserted, r.tx_hash)
    /\ op_validated' = Append(op_validated, r.tx_hash)
    /\ IF ValidateErr(r.tx_hash, r.height)
       THEN /\ op_pc' = "err"
            /\ UNCHANGED anchors
       ELSE /\ op_pc' = "walk"
            /\ anchors' = ValidateMerkleForAnchor(r.tx_hash, r.height)

\* populate_with_outpoints, top of the loop over the outpoints: the
\* transaction of the outpoint is fetched; an output index out of range goes
\* on with the next outpoint, else the history of the output's script is
\* requested.
OutpointNext ==
    /\ op_pc = "next"
    /\ IF outpoints = <<>>
       THEN /\ op_pc' = "done"
            /\ UNCHANGED <<outpoints, outpoint, op_hist, has_residing, has_spending,
                           op_inserted, op_validated, op_seen, tx_cache, tx_gets>>
       ELSE /\ outpoint' = Head(outpoints)
            /\ outpoints' = Tail(outpoints)
            /\ has_residing' = FALSE
            /\ has_spending' = FALSE
            /\ op_inserted' = <<>>
            /\ op_validated' = <<>>
            /\ op_seen' = 0
            /\ \/ /\ FetchTxErr(Head(outpoints)[1])
                  /\ op_pc' = "err"
                  /\ UNCHANGED op_hist
               \/ /\ FetchTxHit(Head(outpoints)[1]) \/ FetchTxGet(Head(outpoints)[1])
                  /\ IF Head(outpoints)[2] >= op_txs[Head(outpoints)[1]].outputs
                     THEN /\ op_pc' = "next"
                          /\ UNCHANGED op_hist
                     ELSE /\ op_pc' = "walk"
                          /\ op_hist' = script_history
    /\ UNCHANGED <<emitterSide, callerVars, indexVars, scanLoop, graph_txs, anchors,
                   tipVars, elCall, elHist, op_txs, script_history>>

\* populate_with_outpoints, one turn of the loop over the history: the loop
\* is left when both transactions are found or the history is exhausted; else
\* the entry is the residing transaction, or it is fetched and tested for an
\* input that spends the outpoint, or it is passed over.
OutpointWalk ==
    /\ op_pc = "walk"
    /\ IF op_hist = <<>> \/ (has_residing /\ has_spending)
       THEN /\ op_pc' = "next"
            /\ UNCHANGED <<op_hist, has_residing, has_spending, op_inserted,
                           op_validated, op_seen, graphVars>>
       ELSE /\ op_hist' = Tail(op_hist)
            /\ op_seen' = op_seen + 1
            /\ IF ~has_residing /\ Head(op_hist).tx_hash = outpoint[1]
               THEN /\ has_residing' = TRUE
                    /\ InsertAndValidate(Head(op_hist))
                    /\ UNCHANGED <<has_spending, tx_cache, tx_gets>>
               ELSE IF ~has_spending /\ Head(op_hist).tx_hash # outpoint[1]
               THEN \/ /\ FetchTxErr(Head(op_hist).tx_hash)
                       /\ op_pc' = "err"
                       /\ UNCHANGED <<has_residing, has_spending, op_inserted,
                                      op_validated, graph_txs, anchors>>
                    \/ /\ FetchTxHit(Head(op_hist).tx_hash)
                             \/ FetchTxGet(Head(op_hist).tx_hash)
                       /\ has_spending' = SpendsOutpoint(Head(op_hist).tx_hash, outpoint)
                       /\ IF has_spending'
                          THEN InsertAndValidate(Head(op_hist))
                          ELSE /\ op_pc' = "walk"
                               /\ UNCHANGED <<op_inserted, op_validated, graph_txs,
                                              anchors>>
                       /\ UNCHANGED has_residing
               ELSE /\ op_pc' = "walk"
                    /\ UNCHANGED <<has_residing, has_spending, op_inserted,
                                   op_validated, graphVars>>
    /\ UNCHANGED <<emitterSide, callerVars, indexVars, scanLoop, tipVars, elCall,
                   elHist, op_txs, script_history, outpoints, outpoint>>

\* populate_with_outpoints is entered with an empty graph update and at most
\* MaxOutpoints outpoints. Transaction 0 has up to MaxVout outputs; the others
\* spend some of them, no two the same one. The server may not know the last
\* transaction; its block holds the transactions with an even txid.
InitOutpoints ==
    /\ EmitterNew
    /\ active \in {OpTxids, OpTxids \ {MaxOpTxs - 1}}
    /\ OneBlockServer
    /\ stop_gap = 0
    /\ batch_size = 0
    /\ scan_pc = "off"
    /\ ScanStart
    /\ NewClient
    /\ NoCall
    /\ NoCallers
    /\ op_txs \in {f \in [OpTxids -> [outputs : 1..MaxVout,
                                      inputs : SUBSET (Outpoints \ {<<0, MaxVout>>})]] :
                      /\ f[0].inputs = {}
                      /\ \A t \in OpTxids \ {0} :
                            /\ f[t].outputs = 1
                            /\ \A i \in f[t].inputs : i[2] < f[0].outputs
                            /\ \A u \in OpTxids \ {0, t} : f[t].inputs \cap f[u].inputs = {}}
    /\ script_history \in ScriptHistories
    /\ outpoints \in UNION {[1..n -> Outpoints] : n \in 1..MaxOutpoints}
    /\ op_pc = "next"
    /\ outpoint = NoOutpoint
    /\ op_hist = <<>>
    /\ has_residing = FALSE
    /\ has_spending = FALSE
    /\ op_inserted = <<>>
    /\ op_validated = <<>>
    /\ op_seen = 0

NextOutpoints == OutpointNext \/ OutpointWalk
SpecOutpoints == InitOutpoints /\ [][NextOutpoints]_vars

\* ------------------------------------------------------------------ fetch_tx of concurrent callers
CallTxids == 0..(MaxCallTxids - 1)

\* The entries of the cache for a txid.
CacheEntries(t) == {e \in cache_map : e[1] = t}

\* (mutant) the insertion keeps the entry the key had.
HashMapInsert_Push(m, k, v) == m \cup {<<k, v>>}

\* HashMap::insert(txid, Arc::clone(&tx)): the entry of the key is replaced.
HashMapInsert(m, k, v) == {e \in m : e[1] # k} \cup {<<k, v>>}

FetchOkOf(t, arc) == [kind |-> "Ok", txid |-> t, arc |-> arc]
FetchErrOf(t) == [kind |-> "Err", txid |-> t, arc |-> 0]

\* A thread calls fetch_tx(txid).
FtCall(c, t) ==
    /\ ft_pc[c] = "idle"
    /\ ft_pc' = [ft_pc EXCEPT ![c] = "lock"]
    /\ ft_txid' = [ft_txid EXCEPT ![c] = t]
    /\ UNCHANGED <<cache_lock, cache_map, ft_ret, ft_missed, tx_cache, tx_gets>>

\* self.tx_cache.lock().unwrap() returns when the mutex is free.
FtLock(c) ==
    /\ ft_pc[c] = "lock"
    /\ cache_lock = 0
    /\ cache_lock' = c
    /\ ft_pc' = [ft_pc EXCEPT ![c] = "get"]
    /\ UNCHANGED <<cache_map, ft_txid, ft_ret, ft_missed, tx_cache, tx_gets>>

\* (mutant) the guard is not dropped before the request.
FtGet_KeepLock(c) ==
    /\ ft_pc[c] = "get"
    /\ IF CacheEntries(ft_txid[c]) # {}
       THEN /\ \E e \in CacheEntries(ft_txid[c]) :
                  ft_ret' = [ft_ret EXCEPT ![c] = FetchOkOf(e[1], e[2])]
            /\ ft_pc' = [ft_pc EXCEPT ![c] = "ret"]
            /\ cache_lock' = 0
            /\ UNCHANGED ft_missed
       ELSE /\ ft_missed' = [ft_missed EXCEPT ![c] = TRUE]
            /\ ft_pc' = [ft_pc EXCEPT ![c] = "net"]
            /\ UNCHANGED <<cache_lock, ft_ret>>
    /\ UNCHANGED <<cache_map, ft_txid, tx_cache, tx_gets>>

\* tx_cache.get(&txid) under the guard: a hit returns the cached Arc and the
\* guard goes out of scope; a miss drops the guard and sends the request.
FtGet(c) ==
    /\ ft_pc[c] = "get"
    /\ cache_lock' = 0
    /\ IF CacheEntries(ft_txid[c]) # {}
       THEN /\ \E e \in CacheEntries(ft_txid[c]) :
                  ft_ret' = [ft_ret EXCEPT ![c] = FetchOkOf(e[1], e[2])]
            /\ ft_pc' = [ft_pc EXCEPT ![c] = "ret"]
            /\ UNCHANGED ft_missed
       ELSE /\ ft_missed' = [ft_missed EXCEPT ![c] = TRUE]
            /\ ft_pc' = [ft_pc EXCEPT ![c] = "net"]
            /\ UNCHANGED ft_ret
    /\ UNCHANGED <<cache_map, ft_txid, tx_cache, tx_gets>>

\* self.inner.transaction_get(&txid)? answers: the transaction goes into a new
\* Arc, or the error of the server is returned.
FtNet(c) ==
    /\ ft_pc[c] = "net"
    /\ tx_gets' = [tx_gets EXCEPT ![ft_txid[c]] = @ + 1]
    /\ IF TransactionGetOk(ft_txid[c])
       THEN /\ ft_pc' = [ft_pc EXCEPT ![c] = "relock"]
            /\ UNCHANGED ft_ret
       ELSE /\ ft_pc' = [ft_pc EXCEPT ![c] = "ret"]
            /\ ft_ret' = [ft_ret EXCEPT ![c] = FetchErrOf(ft_txid[c])]
    /\ UNCHANGED <<cache_lock, cache_map, ft_txid, ft_missed, tx_cache>>

\* self.tx_cache.lock().unwrap() of the insertion returns when the mutex is free.
FtRelock(c) ==
    /\ ft_pc[c] = "relock"
    /\ cache_lock = 0
    /\ cache_lock' = c
    /\ ft_pc' = [ft_pc EXCEPT ![c] = "insert"]
    /\ UNCHANGED <<cache_map, ft_txid, ft_ret, ft_missed, tx_cache, tx_gets>>

\* .insert(txid, Arc::clone(&tx)) under the temporary guard, then Ok(tx).
FtInsert(c) ==
    /\ ft_pc[c] = "insert"
    /\ cache_map' = HashMapInsert(cache_map, ft_txid[c], c)
    /\ tx_cache' = tx_cache \cup {ft_txid[c]}
    /\ cache_lock' = 0
    /\ ft_ret' = [ft_ret EXCEPT ![c] = FetchOkOf(ft_txid[c], c)]
    /\ ft_pc' = [ft_pc EXCEPT ![c] = "ret"]
    /\ UNCHANGED <<ft_txid, ft_missed, tx_gets>>

\* What fetch_tx leaves alone.
callerRest == <<emitterSide, outpointVars, indexVars, scanLoop, graph_txs, anchors,
                tipVars, elCall, elHist>>

\* The steps of fetch_tx a thread takes on its own, and all the steps of the
\* threads.
FtLocal(c) ==
    /\ FtLock(c) \/ FtGet(c) \/ FtRelock(c) \/ FtInsert(c)
    /\ UNCHANGED callerRest
FetchTxStep ==
    \E c \in Callers :
        \/ FtLocal(c)
        \/ /\ FtNet(c) \/ \E t \in CallTxids : FtCall(c, t)
           /\ UNCHANGED callerRest

\* A client whose cache holds transaction 0 or nothing, of a server that knows
\* transaction 0 and may know the others; every thread calls fetch_tx once.
InitCallers ==
    /\ EmitterNew
    /\ active \in {{0}, CallTxids}
    /\ OneBlockServer
    /\ stop_gap = 0
    /\ batch_size = 0
    /\ scan_pc = "off"
    /\ ScanStart
    /\ NoOutpointScan
    /\ NoCall
    /\ graph_txs = {}
    /\ anchors = {}
    /\ tx_gets = [t \in 0..(MaxSpks - 1) |-> 0]
    /\ cache_map \in {{}, {<<0, 0>>}}
    /\ tx_cache = {e[1] : e \in cache_map}
    /\ cache_lock = 0
    /\ ft_pc = [c \in Callers |-> "idle"]
    /\ ft_txid = [c \in Callers |-> NoIndex]
    /\ ft_ret = [c \in Callers |-> NoFetch]
    /\ ft_missed = [c \in Callers |-> FALSE]

\* A thread that can take a step of its own is scheduled; the answer of the
\* server may never come.
SpecCallers ==
    InitCallers /\ [][FetchTxStep]_vars /\ \A c \in Callers : WF_vars(FtLocal(c))
\* ------------------------------------------------------------------ helpers of the properties
\* A step that returns from next_block/next_header.
InNext == pc \in {"poll", "start_info", "walk", "item"}
Returns == InNext /\ pc' = "idle"

\* Some block the node stored has left the best chain.
Reorged == Len(blk) > Len(best)

\* ------------------------------------------------------------------ C1
\* C1 as stated: when a next_* call returns, every block id of last_cp is in
\* the node's best chain as of the last RPC response the emitter received: the
\* get_item response when a block is returned, else the last get_block_info
\* response.
C1_AsOfLastRpcResponse ==
    [][(Returns /\ info_best # <<>>) =>
         CpIds(last_cp') \subseteq
             ChainIds(IF ret'.kind = "Some" THEN best ELSE info_best)]_vars

\* C1, amended: after a next_* call that returned Ok, every block id of last_cp
\* is in the node's best chain as of the last get_block_info response.
C1_ChainConsistency ==
    (pc = "idle" /\ ret.kind \in {"Some", "None"}) =>
        CpIds(last_cp) \subseteq ChainIds(info_best)

\* A block was returned after a reorg, on top of checkpoints that survived it.
C1_Witness ==
    /\ pc = "idle"
    /\ ret.kind = "Some"
    /\ Len(last_cp) >= 3
    /\ \E h \in 1..Len(blk) : ~InBestChain(h) /\ blk[h].height = ret.height

\* ------------------------------------------------------------------ C2
\* C2: when next_* returns Some((height, item)), the get_block_info call of
\* that call reported the block with confirmations >= 0, the tip of last_cp is
\* (height, hash) of the block and last_block is that block info.
C2_EmittedBlockIsTip ==
    (pc = "idle" /\ ret.kind = "Some") =>
        /\ res.hash = ret.hash
        /\ res.height = ret.height
        /\ res.confirmations >= 0
        /\ last_cp # <<>>
        /\ last_cp[Len(last_cp)] = BlockId(ret.height, ret.hash)
        /\ last_block = res

\* A block above height 1 was returned after a reorg.
C2_Witness ==
    /\ pc = "idle"
    /\ ret.kind = "Some"
    /\ ret.height >= 2
    /\ Reorged

\* ------------------------------------------------------------------ C3
\* C3: against a best chain that does not change, an emitter built by
\* from_height(s), s <= tip, returns the best-chain block at height s, then at
\* each next height up to the tip, and None from then on: every returned block
\* is the best-chain block one above the last returned one (s for the first),
\* a call returns None exactly when the last returned block is the tip, and no
\* call fails.
C3_StaticChainInOrder ==
    [][/\ pc' # "panic"
       /\ Returns =>
            /\ ret'.kind \in {"Some", "None"}
            /\ ret'.kind = "None" <=> last_emitted = TipHeight
            /\ ret'.kind = "Some" =>
                 /\ ret'.height = IF last_emitted = NoHeight THEN start_height
                                  ELSE last_emitted + 1
                 /\ ret'.hash = best[ret'.height + 1]]_vars

\* Every block from height 0 to the tip was returned, then None.
C3_Witness ==
    /\ pc = "idle"
    /\ ret.kind = "None"
    /\ start_height = 0
    /\ last_emitted = TipHeight
    /\ TipHeight >= 2

\* ------------------------------------------------------------------ C4
\* The step of poll that handles AgreementFound.
AgreementStep ==
    /\ pc \in {"poll", "walk"}
    /\ last_block = NoBlock
    /\ last_cp # <<>>
    /\ last_block' # NoBlock

\* C4: when next_* finds the agreement point, last_cp is truncated to the
\* highest of its checkpoints that is in the best chain, and the next block
\* returned is the best-chain block one above the agreement height.
C4_ReorgRecovery ==
    [][/\ AgreementStep =>
            \E i \in 1..Len(last_cp) :
                /\ last_cp' = SubSeq(last_cp, 1, i)
                /\ InBestChain(last_cp[i].hash)
                /\ \A k \in (i + 1)..Len(last_cp) : ~InBestChain(last_cp[k].hash)
                /\ agreed' = last_cp[i].height
       /\ (Returns /\ ret'.kind = "Some" /\ agreed # NoHeight) =>
            /\ ret'.height = agreed + 1
            /\ ret'.height + 1 <= Len(info_best)
            /\ ret'.hash = info_best[ret'.height + 1]]_vars

\* A call found the agreement point below a checkpoint that had left the best
\* chain and returned the block that replaces that checkpoint's block.
C4_Witness ==
    /\ pc = "idle"
    /\ ret.kind = "Some"
    /\ agreed # NoHeight
    /\ agreed >= 1
    /\ ret.height = agreed + 1
    /\ \E h \in 1..Len(blk) : ~InBestChain(h) /\ blk[h].height = ret.height

\* ------------------------------------------------------------------ C5
\* The Emitter fields C5 names.
C5Fields == <<last_cp, start_height, last_mempool_time, last_mempool_tip>>

\* C5: once next_* has returned None (from a call during which the node did not
\* change) and the node has not changed since, a further call returns None and
\* leaves last_cp, start_height, last_mempool_time and last_mempool_tip unchanged.
C5_CaughtUpIdempotent ==
    [][(caught_up = "none" /\ InNext) =>
         /\ UNCHANGED C5Fields
         /\ Returns => ret'.kind = "None"]_vars

\* ------------------------------------------------------------------ C6
\* C6: when next_* returns None from a call during which the node did not
\* change, the tip of last_cp is the tip of the node's best chain.
C6_NoneMeansTipReached ==
    [][(Returns /\ ret'.kind = "None" /\ caught_up # "no") =>
         /\ last_cp' # <<>>
         /\ last_cp'[Len(last_cp')] = ChainTip(best)]_vars

\* ------------------------------------------------------------------ C7
\* (a) since t was last emitted a reorg lowered last_mempool_tip below t's
\* originally-seen height; (b) t's first-seen time is above last_mempool_time.
TipLoweredBelow(t) == low[t] # NoHeight /\ low[t] < entries[t].height
SeenAfterLastTime(t) == entries[t].time > last_mempool_time

\* C7 as stated: a transaction is emitted again only if (a) or (b).
C7_OnlyReorgOrNewTime ==
    [][Mempool =>
         \A t \in ret'.txs \cap emitted_ever :
             TipLoweredBelow(t) \/ SeenAfterLastTime(t)]_vars

\* C7, amended: a transaction is emitted again only if (a), or (b), or its
\* originally-seen height is above the tip height recorded by the previous
\* mempool() call (start_height - 1 when none was recorded).
C7_DeDuplication ==
    [][Mempool =>
         \A t \in ret'.txs \cap emitted_ever :
             \/ TipLoweredBelow(t)
             \/ SeenAfterLastTime(t)
             \/ entries[t].height > PrevMempoolTip]_vars

\* mempool() returned without an already emitted transaction that is still in
\* the mempool, at a height the recorded tip covers.
C7_Witness ==
    /\ pc = "idle"
    /\ ret.kind = "Mempool"
    /\ \E t \in emitted_txs :
          /\ t \notin ret.txs
          /\ last_mempool_tip # NoHeight
          /\ pool[t].height >= 1
          /\ pool[t].height <= last_mempool_tip

\* ------------------------------------------------------------------ C8
\* The transactions C8 is about at a mempool() call: in the mempool throughout
\* the call, with the originally-seen height above the last block next_*
\* returned.
AboveLastEmitted ==
    {t \in InEntries :
        /\ pool[t] = entries[t]
        /\ last_emitted # NoHeight
        /\ entries[t].height > last_emitted}

\* Already emitted transactions whose originally-seen height a returned block
\* has reached, while no block was ever reorged out.
ReachedByEmitted ==
    {t \in emitted_txs :
        ~Reorged /\ last_emitted # NoHeight /\ pool[t].height <= last_emitted}

\* C8 as stated: a transaction above the last emitted block is emitted by every
\* mempool() call, and every mempool() call made after the block at its height
\* was emitted, the first one included, does not emit it (absent reorgs).
C8_StopsAtFirstCall ==
    [][Mempool =>
          /\ AboveLastEmitted \subseteq ret'.txs
          /\ ReachedByEmitted \cap ret'.txs = {}]_vars

\* C8, amended: a transaction above the last emitted block is emitted by every
\* mempool() call; once a mempool() call has returned after the block at its
\* height was emitted, later mempool() calls do not emit it (absent reorgs).
C8_ReEmitUntilSeen ==
    [][Mempool =>
          /\ AboveLastEmitted \subseteq ret'.txs
          /\ mempool_called => ReachedByEmitted \cap ret'.txs = {}]_vars

\* The second mempool() call after the block at the transaction's height was
\* emitted has returned without the transaction.
C8_Witness ==
    /\ pc = "idle"
    /\ ret.kind = "Mempool"
    /\ mempool_called
    /\ \E t \in ReachedByEmitted :
          /\ t \notin ret.txs
          /\ pool[t].height >= 1
          /\ pool[t].height = last_emitted

\* ------------------------------------------------------------------ C9
\* C9: a transaction that mempool() emitted, and whose originally-seen height
\* then lost its checkpoint in a reorg that a next_* call has processed and
\* returned Ok from, is emitted by the next mempool() call.
C9_ReEmitAfterReorg ==
    [][(Mempool /\ ret.kind \in {"Some", "None"}) =>
          {t \in reorg_below : pool[t] = entries[t]} \subseteq ret'.txs]_vars

\* ------------------------------------------------------------------ C10
\* The scan of the keychain returned last active index k.
ScanReturned(k) == scan_pc = "done" /\ last_active_index = k /\ k # NoIndex

\* The supplied scripts at the indices from..to were queried and have empty
\* histories.
QueriedEmpty(from, to) ==
    \A i \in from..to : i < MaxSpks => (i \in queried /\ i \notin active)

\* The last index of the batch that holds index i.
BatchEnd(i) == ((i \div batch_size) + 1) * batch_size - 1

\* C10 as stated: with k returned, the scripts k+1..k+stop_gap were queried and
\* are empty, and no script beyond k+stop_gap was queried.
C10_NothingBeyondGap ==
    \A k \in 0..(MaxSpks - 1) :
        ScanReturned(k) =>
            /\ QueriedEmpty(k + 1, k + stop_gap)
            /\ \A i \in queried : i <= k + stop_gap

\* C10, amended: with k returned, the supplied scripts k+1..k+stop_gap+1 were
\* queried and are empty, and no script beyond the batch that holds index
\* k+stop_gap+1 was queried.
C10_GapLimitSoundness ==
    \A k \in 0..(MaxSpks - 1) :
        ScanReturned(k) =>
            /\ QueriedEmpty(k + 1, k + stop_gap + 1)
            /\ \A i \in queried : i <= BatchEnd(k + stop_gap + 1)

\* A scan stopped by the gap limit after an active script, having queried the
\* script at k+stop_gap+1 and, in the same batch, one beyond it.
C10_Witness ==
    /\ scan_pc = "done"
    /\ last_active_index >= 1
    /\ stop_gap >= 1
    /\ batch_size >= 2
    /\ GapExceeded(unused_spk_count, stop_gap)
    /\ last_active_index + stop_gap + 2 \in queried

\* ------------------------------------------------------------------ C11
\* The active script before script i (NoIndex: none), and the number of
\* consecutive scripts with an empty history right before script i.
PrevActive(i) ==
    IF \E j \in active : j < i
    THEN CHOOSE j \in active : j < i /\ \A k \in active : k < i => k <= j
    ELSE NoIndex
GapBefore(i) == i - 1 - PrevActive(i)

\* C11: when populate_with_spks (batch_size at least 1) has returned, an active
\* script whose gap starts at the keychain start or at a discovered active
\* script is discovered (its transaction is in the graph update and the last
\* active index has reached it) exactly if stop_gap is at least the number n of
\* empty scripts before it; with stop_gap below n the scan reports the previous
\* active index, or none.
C11_GapLimitCutoff ==
    (scan_pc = "done" /\ batch_size >= 1) =>
        \A i \in active :
            (PrevActive(i) = NoIndex \/ PrevActive(i) \in graph_txs) =>
                /\ (i \in graph_txs /\ last_active_index >= i)
                       <=> stop_gap >= GapBefore(i)
                /\ stop_gap < GapBefore(i) => last_active_index = PrevActive(i)

\* A scan that discovered an active script after exactly stop_gap empty ones and
\* stopped before the next active script, stop_gap + 1 empty ones later.
C11_Witness ==
    /\ scan_pc = "done"
    /\ batch_size >= 2
    /\ stop_gap >= 1
    /\ \E i, k \in active :
          /\ PrevActive(i) # NoIndex
          /\ GapBefore(i) = stop_gap
          /\ PrevActive(k) = i
          /\ GapBefore(k) = stop_gap + 1
          /\ i \in graph_txs
          /\ k \notin graph_txs
          /\ last_active_index = i

\* ------------------------------------------------------------------ C13
\* A step that returns from fetch_tip_and_latest_blocks with a tip.
TipReturns ==
    /\ el_pc \in {"tip", "headers", "walk"}
    /\ el_pc' \in {"done", "spks", "txids"}

\* The server's chain holds the block id.
ServerHas(id) == HeaderOk(id.height) /\ HeaderHash(id.height) = id.hash

\* The index in prev_tip of its highest checkpoint that the server's chain
\* holds (0: none).
AgreementIndex ==
    IF \E i \in 1..Len(chain_tip) : ServerHas(chain_tip[i])
    THEN CHOOSE i \in 1..Len(chain_tip) :
             /\ ServerHas(chain_tip[i])
             /\ \A k \in (i + 1)..Len(chain_tip) : ~ServerHas(chain_tip[k])
    ELSE 0

\* What C13 says of the returned tip.
Reconciled(t, height) ==
    /\ CpHeight(t) = height
    /\ Len(t) >= AgreementIndex
    /\ SubSeq(t, 1, AgreementIndex) = SubSeq(chain_tip, 1, AgreementIndex)
    /\ \A j \in (AgreementIndex + 1)..Len(t) : ServerHas(t[j])
    /\ \A i \in (AgreementIndex + 1)..Len(chain_tip) :
          \E j \in (AgreementIndex + 1)..Len(t) : t[j].height = chain_tip[i].height

C14_ServerBehind ==
    [][(el_pc = "tip" /\ el_pc' # "tip" /\ TipHeight < CpHeight(chain_tip)) =>
          /\ TipReturns
          /\ new_tip' = chain_tip
          /\ latest_blocks' = NoBlocks
          /\ hdr_reqs' = {}]_vars

\* A call returned prev_tip although the server's chain differs from it at the
\* height of one of its checkpoints.
C14_Witness ==
    /\ el_pc = "done"
    /\ new_tip_height < CpHeight(chain_tip)
    /\ new_tip = chain_tip
    /\ latest_blocks = NoBlocks
    /\ hdr_reqs = {}
    /\ \E i \in 1..Len(chain_tip) :
          /\ HeaderOk(chain_tip[i].height)
          /\ ~ServerHas(chain_tip[i])

\* ------------------------------------------------------------------ C12
\* C12 (as stated): whenever full_scan or sync has returned, whatever the server
\* did during the call, every anchor of the graph update has a checkpoint at its
\* height in the chain update.
C12_EveryAnchorHasCheckpoint ==
    el_pc = "done" => \A a \in anchors : CpGet(chain_update_tip, a.height)

\* C12 (amended): whenever full_scan or sync has returned, every anchor of the
\* graph update that is not above the tip of the chain update has a checkpoint
\* at its height in the chain update.
C12_ChainUpdateCompleteness ==
    el_pc = "done" =>
        \A a \in anchors :
            a.height <= CpHeight(chain_update_tip) => CpGet(chain_update_tip, a.height)

\* A call has returned with an anchor whose checkpoint chain_update inserted
\* below the tip, after the server's chain changed during the call.
C12_Witness ==
    /\ el_pc = "done"
    /\ srv_steps > 0
    /\ \E a \in anchors :
          /\ a.height < CpHeight(chain_update_tip)
          /\ ~CpGet(new_tip, a.height)
          /\ CpGet(chain_update_tip, a.height)

\* ------------------------------------------------------------------ C15
\* C15: an anchor enters the graph update of full_scan or sync only in the step
\* that fetched the header at the proof's block_height; the anchor is of the
\* transaction under validation, its height is that block_height, its hash is
\* the hash of that header, and the block of that header holds the transaction
\* (the Merkle proof is valid for the header's Merkle root).
C15_AnchorTrust ==
    [][\A a \in anchors' \ anchors :
          /\ scan_pc = "header"
          /\ a.txid = tx_res.tx_hash
          /\ a.height = merkle_res.block_height
          /\ HeaderOk(a.height)
          /\ a.hash = HeaderHash(a.height)
          /\ <<a.txid, a.hash>> \in block_txs]_vars

\* A sync has returned anchors although the server's chain changed during the
\* call.
C15_Witness ==
    /\ el_pc = "done"
    /\ el_op = "sync"
    /\ srv_steps > 0
    /\ anchors # {}

\* ------------------------------------------------------------------ C16
\* C16: a full scan that follows a merged full scan, on a server whose chain and
\* histories did not change, returns the last active index of the first scan
\* and anchors that are among those of the first scan.
C16_RescanRoundTrip ==
    (el_pc = "done" /\ wallet.scans = 1) =>
        /\ last_active_index = wallet.last_active_index
        /\ anchors \subseteq wallet.anchors

\* The second scan has returned an active index and an anchor, from a tip that
\* the first scan's update changed.
C16_Witness ==
    /\ el_pc = "done"
    /\ wallet.scans = 1
    /\ last_active_index > 0
    /\ anchors # {}
    /\ chain_tip = chain_update_tip
    /\ Len(chain_tip) > 2

\* ------------------------------------------------------------------ C17
\* The txid of the fetch_tx call that is about to return, if there is one.
FetchArg ==
    IF scan_pc = "fetch" THEN tx_res.tx_hash
    ELSE IF el_pc = "txids" /\ scan_pc = "txid" /\ txids # <<>> THEN Head(txids)
    ELSE NoIndex

\* That call returns, ...
FetchReturns ==
    /\ FetchArg # NoIndex
    /\ <<el_pc, scan_pc, txids>>' # <<el_pc, scan_pc, txids>>

\* ... with Ok: the caller goes on with the transaction.
FetchOk ==
    \/ scan_pc = "fetch" /\ scan_pc' = "merkle"
    \/ scan_pc = "txid" /\ scan_pc' = "txid_hist"

\* C17: fetch_tx of a txid in the cache returns Ok without a transaction_get; a
\* fetch_tx that returns Ok after a transaction_get has put the txid into the
\* cache; a fetch_tx that fails leaves the cache as it was; and no step takes a
\* txid out of the cache.
C17_TxCache ==
    [][/\ tx_cache \subseteq tx_cache'
       /\ FetchReturns =>
            /\ FetchArg \in tx_cache =>
                 FetchOk /\ tx_gets' = tx_gets /\ tx_cache' = tx_cache
            /\ (FetchArg \notin tx_cache /\ FetchOk) =>
                 /\ tx_gets' = [tx_gets EXCEPT ![FetchArg] = @ + 1]
                 /\ tx_cache' = tx_cache \cup {FetchArg}
            /\ ~FetchOk => tx_cache' = tx_cache]_vars

\* A sync has returned after a fetch_tx that populate_tx_cache answered (of a
\* transaction the server does not have), one that transaction_get answered and
\* one that an earlier fetch_tx answered.
C17_Witness ==
    /\ el_pc = "done"
    /\ (MaxSpks - 1) \in graph_txs
    /\ tx_gets[MaxSpks - 1] = 0
    /\ 0 \in graph_txs
    /\ tx_gets[0] = 1

\* ------------------------------------------------------------------ C18
\* C18: a mempool() call that returns Ok returns the transactions that passed
\* the filter and are still in the node's mempool (those that left it fail with
\* error -5 and are dropped), and one that returns Err has committed nothing;
\* in populate_with_txids, a txid that is not in the cache and that the server
\* does not have is skipped when its fetch returns the protocol error: the scan
\* goes on with the txids after it and the graph update is as it was.
C18_NotFoundNotPropagated ==
    [][/\ (pc = "mempool" /\ pc' = "idle" /\ ret'.kind = "Mempool") =>
            ret'.txs = {t \in DOMAIN entries :
                          /\ entries[t].in
                          /\ ~IsSkipped(entries[t], last_mempool_time, PrevMempoolTip)
                          /\ pool[t].in}
       /\ (pc = "mempool" /\ pc' = "idle" /\ ret'.kind = "Err") =>
            UNCHANGED emitterVars
       /\ (/\ el_pc = "txids" /\ scan_pc = "txid" /\ txids # <<>>
           /\ Head(txids) \notin tx_cache
           /\ ~TransactionGetOk(Head(txids))
           /\ el_pc' # "err"
           /\ <<el_pc, scan_pc, txids>>' # <<el_pc, scan_pc, txids>>) =>
            /\ el_pc' = "txids"
            /\ scan_pc' = "txid"
            /\ txids' = Tail(txids)
            /\ UNCHANGED <<graph_txs, anchors>>]_vars

\* mempool() has returned transaction 1 and not transaction 2, which its
\* get_raw_mempool_verbose had listed (with the first-seen time 2 that the call
\* recorded) and which left the mempool before its get_raw_transaction ...
C18_MempoolCase ==
    /\ ret.kind = "Mempool"
    /\ ret.txs = {1}
    /\ emitted_ever = {1}
    /\ pool[1].in
    /\ pool[1].time = 1
    /\ last_mempool_time = 2
    /\ ~pool[2].in

\* ... or sync has returned the transaction of a txid (one in the cache) that
\* came after a txid the server does not have.
C18_SyncCase ==
    /\ el_pc = "done"
    /\ el_op = "sync"
    /\ active = {1}
    /\ graph_txs = {0, 1}
    /\ tx_gets[MaxSpks - 1] = 1

C18_Witness == C18_MempoolCase \/ C18_SyncCase

\* ------------------------------------------------------------------ C19
\* C19: in every state of the emitter, whatever constructors and calls of
\* next_block, next_header and mempool came before and whichever of them
\* returned errors, a cached last_block comes with a last_cp, and poll_once has
\* not failed its assertion.
C19_LastBlockHasCp ==
    /\ last_block # NoBlock => last_cp # <<>>
    /\ ~(pc = "panic" /\ last_cp = <<>>)

\* The emitter holds a block and checkpoints after a reorg that made it find an
\* agreement, a mempool() call and a call that returned an error.
C19_Witness ==
    /\ pc = "idle"
    /\ last_block # NoBlock
    /\ Len(last_cp) > 1
    /\ ret.kind = "Err"
    /\ agreed # NoHeight
    /\ mempool_called

\* ------------------------------------------------------------------ C20
\* C20: whenever poll holds a Block response while last_cp is present, whatever
\* the node mined and reorged between the calls and the RPCs, the height of
\* the block is last_cp.height() + 1, and the push has not panicked.
C20_PushNeverFails ==
    /\ (pc = "item" /\ last_cp # <<>>) => res.height = CpHeight(last_cp) + 1
    /\ ~(pc = "panic" /\ last_cp # <<>>)

\* poll holds a Block response for a height it had emitted before: a reorg
\* replaced that block and the agreement cut last_cp back.
C20_Witness ==
    /\ pc = "item"
    /\ last_cp # <<>>
    /\ agreed # NoHeight
    /\ res.height <= last_emitted
    /\ res.height = CpHeight(last_cp) + 1

\* ------------------------------------------------------------------ C21
\* The agreement walk is at the lowest checkpoint of last_cp and the node
\* reports that checkpoint out of the best chain.
AllReorgedOut ==
    /\ \/ pc = "poll" /\ last_block = NoBlock /\ Len(last_cp) = 1
       \/ pc = "walk" /\ walk = 1
    /\ NotInBestChain(GetBlockInfo(last_cp[1].hash))

\* next_* returns a block while last_cp is absent.
EmitsUnseeded == pc = "item" /\ last_cp = <<>> /\ pc' = "idle"

RestartBlocks ==
    {GetBlockInfo(h) : h \in {x \in DOMAIN blk : blk[x].height = start_height}}

\* C22: after the agreement point was not found, the checkpoints the next
\* emission seeds (the block at the restart height and its previous block)
\* reach down to a height no greater than the lowest checkpoint height of the
\* discarded last_cp.
C22_RestartReachesLowest ==
    [][(AllReorgedOut /\ PollWalk) =>
          \A r \in RestartBlocks' :
              ExtendCp(<<>>, r)[1].height <= last_cp[1].height]_vars

\* ------------------------------------------------------------------ C23
\* next_* returns the block of the Block response.
EmitsBlock == pc = "item" /\ pc' = "idle" /\ ret'.kind = "Some"

\* C23: when a block at height h is emitted while last_cp is absent, last_cp
\* becomes (h-1, previous block hash), (h, hash) if the block has a previous
\* block and (h, hash) alone otherwise; when last_cp is present the block is
\* pushed on top and the checkpoints below are kept as they were.
C23_Seeding ==
    [][EmitsBlock =>
          LET h == res.height
              this == [height |-> h, hash |-> res.hash]
          IN
          /\ ret'.height = h /\ ret'.hash = res.hash
          /\ (last_cp = <<>> /\ blk[res.hash].prev # NoHash) =>
                last_cp' = <<[height |-> h - 1, hash |-> blk[res.hash].prev], this>>
          /\ (last_cp = <<>> /\ blk[res.hash].prev = NoHash) =>
                last_cp' = <<this>>
          /\ last_cp # <<>> =>
                /\ Len(last_cp') = Len(last_cp) + 1
                /\ SubSeq(last_cp', 1, Len(last_cp)) = last_cp
                /\ last_cp'[Len(last_cp')] = this]_vars

\* A block was pushed on top of a last_cp that an earlier emission had seeded
\* with a block and its previous block.
C23_Witness ==
    /\ pc = "idle"
    /\ ret.kind = "Some"
    /\ start_height >= 1
    /\ Len(last_cp) = 3
    /\ last_cp[1].height = start_height - 1
    /\ last_cp[2].height = start_height
    /\ last_cp[3] = [height |-> ret.height, hash |-> ret.hash]

\* ------------------------------------------------------------------ C24
\* C24: a next_* call during which the node's best chain does not change
\* returns: the loop of poll does not run for ever through BlockNotInBestChain,
\* AgreementFound and AgreementPointNotFound.
C24_CallReturns == InNext ~> (pc = "idle")

\* A call returned a block after the cached next block had left the best chain
\* and the walk had found an agreement below the tip of last_cp.
C24_Witness ==
    /\ pc = "idle"
    /\ ret.kind = "Some"
    /\ Reorged
    /\ agreed # NoHeight
    /\ ret.height = agreed + 1
    /\ Len(last_cp) >= 3

\* ------------------------------------------------------------------ C25
\* next_* returns the error of get_item.
ItemFails == pc = "item" /\ pc' = "idle" /\ ret'.kind = "Err"

\* C25: when get_item of the next block fails, next_* returns the error with
\* last_cp, last_block and start_height as they were: the block is not on
\* last_cp, and what the next call polls is still that block's place, the
\* cached next hash of last_block or, without last_block, start_height.
C25_ItemErrorKeepsNext ==
    [][ItemFails =>
          /\ UNCHANGED <<last_cp, last_block, start_height>>
          /\ ThisId(res) \notin CpIds(last_cp')
          /\ IF last_block' # NoBlock
             THEN /\ NextHash(last_block') = res.hash
                  /\ res.height = CpHeight(last_cp') + 1
             ELSE /\ last_cp' = <<>>
                  /\ start_height' = res.height]_vars

\* get_item failed for the block above a last_cp of three checkpoints at
\* least, after a reorg.
C25_Witness ==
    /\ pc = "idle"
    /\ ret.kind = "Err"
    /\ res # NoBlock
    /\ Reorged
    /\ last_block # NoBlock
    /\ NextHash(last_block) = res.hash
    /\ Len(last_cp) >= 3

\* ------------------------------------------------------------------ C26
\* mempool() returns Ok.
MempoolReturns == pc = "mempool" /\ pc' = "idle" /\ ret'.kind = "Mempool"

\* prev_tip and prev_time of C26, from the emitter's fields.
C26PrevTip ==
    IF last_mempool_tip # NoHeight THEN last_mempool_tip
    ELSE IF start_height = 0 THEN 0 ELSE start_height - 1
C26PrevTime == last_mempool_time

\* The entries of the verbose mempool that are both old and within the height.
C26Old ==
    {t \in DOMAIN entries :
        /\ entries[t].in
        /\ entries[t].time <= C26PrevTime
        /\ entries[t].height <= C26PrevTip}

\* C26: a successful mempool() call emits exactly the entries of the verbose
\* mempool whose transaction is still in the node's mempool and whose
\* first-seen time is above prev_time or whose originally-seen height is above
\* prev_tip; an entry with neither is not emitted and not requested.
C26_FilterRule ==
    [][MempoolReturns =>
          /\ ret'.txs = {t \in DOMAIN entries :
                            /\ entries[t].in
                            /\ pool[t].in
                            /\ \/ entries[t].time > C26PrevTime
                               \/ entries[t].height > C26PrevTip}
          /\ C26Old \cap ret'.txs = {}
          /\ C26Old \cap ToFetch = {}]_vars

\* mempool() returned nothing while the node's mempool holds a transaction it
\* had emitted before, seen at the height of the recorded tip.
C26_Witness ==
    /\ pc = "idle"
    /\ ret.kind = "Mempool"
    /\ ret.txs = {}
    /\ last_mempool_tip # NoHeight
    /\ \E t \in emitted_txs : pool[t].in /\ pool[t].height = last_mempool_tip

\* ------------------------------------------------------------------ C27
\* mempool() returns an error.
MempoolErrs == pc = "mempool" /\ pc' = "idle" /\ ret'.kind = "Err"

\* The first-seen times of the verbose mempool, with the previous
\* last_mempool_time.
C27Times == {last_mempool_time} \cup {entries[t].time : t \in InEntries}

\* C27: a successful mempool() call sets last_mempool_time to the maximum of
\* its previous value and the first-seen times of the verbose mempool, and
\* last_mempool_tip to the height of last_cp (none without last_cp); a call
\* that returns an error leaves both as they were; no step of mempool()
\* changes last_cp, last_block or start_height.
C27_MempoolCommit ==
    [][/\ MempoolReturns =>
             /\ last_mempool_time' \in C27Times
             /\ \A x \in C27Times : x <= last_mempool_time'
             /\ last_mempool_tip' =
                   IF last_cp = <<>> THEN NoHeight ELSE last_cp[Len(last_cp)].height
       /\ MempoolErrs => UNCHANGED <<last_mempool_time, last_mempool_tip>>
       /\ (pc = "mempool" \/ pc' = "mempool") =>
             UNCHANGED <<last_cp, last_block, start_height>>]_vars

\* mempool() returned Ok and empty at a last_cp above genesis, and keeps the
\* last_mempool_time of a transaction that has left the mempool.
C27_Witness ==
    /\ pc = "idle"
    /\ ret.kind = "Mempool"
    /\ last_cp # <<>>
    /\ last_mempool_tip = CpHeight(last_cp)
    /\ last_mempool_tip >= 1
    /\ ret.txs = {}
    /\ last_mempool_time = MaxTime
    /\ \A t \in DOMAIN pool : ~pool[t].in

\* ------------------------------------------------------------------ C28
\* C28: every transaction that is in the verbose mempool of a successful
\* mempool() call and still in the node's mempool when it is requested is
\* emitted by that call or was emitted by an earlier mempool() call.
C28_MempoolCompleteness ==
    [][MempoolReturns =>
          \A t \in DOMAIN entries :
              (entries[t].in /\ pool[t].in) =>
                  (t \in ret'.txs \/ t \in emitted_ever)]_vars

\* ------------------------------------------------------------------ C29
\* The walk ends at the lowest checkpoint without an agreement point.
AgreementNotFoundStep == AllReorgedOut /\ PollWalk

\* C29: after next_* found the agreement point, last_mempool_tip, if set, is
\* at most the agreement height; after it found none, last_mempool_tip, if set,
\* is below the lowest checkpoint of the discarded last_cp (every emitted block
\* from there up has left the best chain); no step of next_* sets or raises
\* last_mempool_tip.
C29_MempoolTipInBestChain ==
    [][/\ (AgreementStep /\ last_mempool_tip' # NoHeight) =>
             last_mempool_tip' <= last_block'.height
       /\ (AgreementNotFoundStep /\ last_mempool_tip' # NoHeight) =>
             last_mempool_tip' < last_cp[1].height
       /\ (InNext /\ last_mempool_tip' # last_mempool_tip) =>
             /\ last_mempool_tip # NoHeight
             /\ last_mempool_tip' # NoHeight
             /\ last_mempool_tip' < last_mempool_tip]_vars

\* ------------------------------------------------------------------ C30
\* Every checkpoint of the chain is above the one below it.
Ascending(cp) == \A i \in 1..(Len(cp) - 1) : cp[i].height < cp[i + 1].height

\* C30: fetch_tip_and_latest_blocks does not panic: every checkpoint the
\* agreement walk visits is at most at the server height read at the start,
\* every block pushed onto the new tip is above the checkpoint below it, and
\* the returned chain has a checkpoint.
C30_TipNeverPanics ==
    /\ el_pc # "panic"
    /\ el_pc = "walk" => chain_tip[tip_walk].height <= new_tip_height
    /\ el_pc = "done" => (new_tip # <<>> /\ Ascending(new_tip))

\* A call returned a tip that shares no checkpoint with a prev_tip of two
\* checkpoints at least, from a server whose chain changed during the call.
C30_Witness ==
    /\ el_pc = "done"
    /\ ~tip_quiet
    /\ Len(chain_tip) >= 2
    /\ new_tip_height >= CpHeight(chain_tip)
    /\ CpIds(new_tip) \cap CpIds(chain_tip) = {}
    /\ Len(new_tip) >= 2

\* ------------------------------------------------------------------ C31
\* chain_update has returned.
ChainUpdated == el_pc \in {"prev_txout", "done"} /\ chain_update_tip # <<>>

\* The heights that hold a checkpoint of the chain.
CpHeights(cp) == {cp[i].height : i \in 1..Len(cp)}

\* The heights of the anchors that are not above the tip given to chain_update.
AnchorHeights == {a.height : a \in {x \in anchors : x.height <= CpHeight(new_tip)}}

\* The checkpoint of the chain at height h.
CpAt(cp, h) == cp[CHOOSE i \in 1..Len(cp) : cp[i].height = h]

\* C31: the chain chain_update returns has the tip of the input tip and every
\* input checkpoint as it was; its other checkpoints are at the anchor heights
\* not above the tip that had none, one at each, with the hash of
\* latest_blocks at that height when there is one and the block hash of an
\* anchor at that height otherwise; an anchor above the tip adds nothing.
C31_OnlyAddsMissing ==
    ChainUpdated =>
        /\ chain_update_tip[Len(chain_update_tip)] = new_tip[Len(new_tip)]
        /\ CpIds(new_tip) \subseteq CpIds(chain_update_tip)
        /\ CpHeights(chain_update_tip) = CpHeights(new_tip) \cup AnchorHeights
        /\ Len(chain_update_tip) = Cardinality(CpHeights(chain_update_tip))
        /\ \A h \in AnchorHeights \ CpHeights(new_tip) :
              IF h \in DOMAIN latest_blocks
              THEN CpAt(chain_update_tip, h).hash = latest_blocks[h]
              ELSE \E a \in anchors :
                      a.height = h /\ a.hash = CpAt(chain_update_tip, h).hash

\* chain_update gave an anchor's height the hash of latest_blocks, which is
\* not the block hash of the anchor, and left out an anchor above the tip.
C31_Witness ==
    /\ ChainUpdated
    /\ \E a \in anchors :
          /\ a.height \in AnchorHeights \ CpHeights(new_tip)
          /\ a.height \in DOMAIN latest_blocks
          /\ CpAt(chain_update_tip, a.height).hash # a.hash
    /\ \E b \in anchors : b.height > CpHeight(new_tip)

\* ------------------------------------------------------------------ C32
\* transaction_get_merkle returns an error for the history entry.
MerkleFails == scan_pc = "merkle" /\ scan_pc' \notin {"merkle", "header"}

\* The header answers and the proof does not lead to its Merkle root.
ProofInvalid ==
    /\ scan_pc = "header"
    /\ scan_pc' \notin {"header", "err"}
    /\ merkle_res.block # HeaderHash(merkle_res.block_height)

\* C32: when transaction_get_merkle returns an error for a history entry, or
\* the proof does not validate, no anchor is inserted, the transaction of the
\* entry is in graph_update, no error is returned and the scan goes on with
\* what is left of the batch, or of the txids.
C32_MerkleFailureNotFatal ==
    [][(MerkleFails \/ ProofInvalid) =>
          /\ anchors' = anchors
          /\ tx_res.tx_hash \in graph_txs'
          /\ scan_pc' \in {"pull", "process", "txid"}
          /\ el_pc' = el_pc
          /\ batch' = batch
          /\ spk_histories' = spk_histories
          /\ el_pc = "txids" => txids' = Tail(txids)]_vars

\* A call returned with a transaction and no anchor of it: the proof of its
\* block was not valid for the header the server then had at that height.
C32_Witness ==
    /\ el_pc = "done"
    /\ merkle_res.block # NoHash
    /\ merkle_res.block_height = tx_res.height
    /\ <<tx_res.tx_hash, merkle_res.block>> \in block_txs
    /\ ~InBestChain(merkle_res.block)
    /\ tx_res.tx_hash \in graph_txs
    /\ \A a \in anchors : a.txid # tx_res.tx_hash

\* ------------------------------------------------------------------ C33
\* full_scan, called by sync, is in populate_with_spks or has left it with Ok.
SyncScans == el_op = "sync" /\ el_pc = "spks" /\ scan_pc # "err"

\* C33: sync applies no gap limit. While sync scans the scripts, the histories
\* requested are those of the first next_spk scripts supplied, the scripts
\* still to process are the last ones requested, in the order supplied, and
\* the scan ends only when every script supplied has been requested and
\* processed, whatever the number of consecutive empty histories.
C33_SyncNoGapLimit ==
    SyncScans =>
        /\ queried = 0..(next_spk - 1)
        /\ batch = [j \in 1..Len(batch) |-> next_spk - Len(batch) + j - 1]
        /\ scan_pc = "done" => (next_spk = MaxSpks /\ batch = <<>>)
        /\ ~GapExceeded(unused_spk_count, stop_gap)

\* sync has scanned every script, and more consecutive scripts than any stop
\* gap of a full scan had empty histories.
C33_Witness ==
    /\ SyncScans
    /\ scan_pc = "done"
    /\ queried = 0..(MaxSpks - 1)
    /\ unused_spk_count > MaxStopGap + 1

\* ------------------------------------------------------------------ C34
\* The positions in the history of the script of the entries of the outpoint's
\* transaction, and of the transactions with an input that spends the outpoint.
ResidingAt == {j \in 1..Len(script_history) : script_history[j].tx_hash = outpoint[1]}
SpendingAt ==
    {j \in 1..Len(script_history) :
        /\ script_history[j].tx_hash # outpoint[1]
        /\ outpoint \in op_txs[script_history[j].tx_hash].inputs}
FirstOf(S) == {j \in S : \A k \in S : j <= k}

\* The outpoint in hand has an output index out of range.
VoutOutOfRange == outpoint # NoOutpoint /\ outpoint[2] >= op_txs[outpoint[1]].outputs

\* Between the steps of populate_with_outpoints, for the outpoint in hand.
OutpointRule ==
    (op_pc \in {"next", "walk", "done"} /\ outpoint # NoOutpoint) =>
        /\ Len(op_inserted) <= 2
        /\ \A j, k \in 1..Len(op_inserted) : j # k => op_inserted[j] # op_inserted[k]
        /\ {op_inserted[j] : j \in 1..Len(op_inserted)} =
              {script_history[j].tx_hash :
                  j \in (FirstOf(ResidingAt) \cup FirstOf(SpendingAt)) \cap 1..op_seen}
        /\ op_validated = op_inserted
        /\ has_residing = (FirstOf(ResidingAt) \cap 1..op_seen # {})
        /\ has_spending = (FirstOf(SpendingAt) \cap 1..op_seen # {})
        /\ (has_residing /\ has_spending) =>
              op_seen \in FirstOf(ResidingAt) \cup FirstOf(SpendingAt)
        /\ VoutOutOfRange => (op_inserted = <<>> /\ op_seen = 0)
        /\ op_pc \in {"next", "done"} =>
              \/ VoutOutOfRange
              \/ op_seen = Len(script_history)
              \/ has_residing /\ has_spending

\* A step of populate_with_outpoints adds to graph_update the transactions it
\* inserts for the outpoint in hand, and anchors of those only.
OutpointStepRule ==
    /\ graph_txs' \ graph_txs \subseteq
          {op_inserted'[j] : j \in 1..Len(op_inserted')} \ {op_inserted[j] : j \in 1..Len(op_inserted)}
    /\ Len(op_inserted') > Len(op_inserted) =>
          op_inserted'[Len(op_inserted')] \in graph_txs'
    /\ \A a \in anchors' \ anchors :
          /\ Len(op_inserted') > Len(op_inserted)
          /\ a.txid = op_inserted'[Len(op_inserted')]
    /\ VoutOutOfRange' => (graph_txs' = graph_txs /\ anchors' = anchors)

\* C34: for each requested outpoint, walking the history of the output's
\* script in order, at most two transactions are inserted into graph_update:
\* the first entry whose tx_hash is the outpoint's txid and the first
\* transaction with an input spending exactly that outpoint. No other
\* transaction of the history is inserted or anchored, the walk stops once
\* both are found, and an outpoint whose output index is out of range inserts
\* nothing.
C34_OutpointScan == []OutpointRule /\ [][OutpointStepRule]_vars

\* The call returned; for its last outpoint the residing and the spending
\* transaction were inserted, and a transaction of the history that spends
\* another output was fetched, passed over and is not in graph_update.
C34_Witness ==
    /\ op_pc = "done"
    /\ Len(op_inserted) = 2
    /\ \E j \in 1..Len(script_history) :
          /\ j < op_seen
          /\ script_history[j].tx_hash \in tx_cache \ graph_txs
          /\ op_txs[script_history[j].tx_hash].inputs # {}

\* ------------------------------------------------------------------ C35
\* The lock discipline and the results of fetch_tx, between the steps of the
\* threads.
CallerRule ==
    /\ \A c \in Callers : ft_pc[c] = "net" => cache_lock # c
    /\ cache_lock # 0 => ft_pc[cache_lock] \in {"get", "insert"}
    /\ \A c \in Callers : ft_pc[c] \in {"get", "insert"} => cache_lock = c
    /\ \A t \in CallTxids : Cardinality(CacheEntries(t)) <= 1
    /\ \A c \in Callers :
          (ft_pc[c] = "ret" /\ ft_ret[c].kind = "Ok") =>
              /\ ft_ret[c].txid = ft_txid[c]
              /\ Cardinality(CacheEntries(ft_txid[c])) = 1

\* A thread in fetch_tx is at a step where it waits for, or holds, the mutex.
AtMutex(c) == ft_pc[c] \in {"lock", "get", "relock", "insert"}

\* C35: fetch_tx never holds the mutex of the cache while its request is in
\* flight: whoever holds it is at a step that releases it without waiting, so
\* concurrent callers cannot deadlock, and a thread at
\* the mutex gets past it even if the answer to another thread's request never
\* comes. Two concurrent misses on one txid may both fetch; each call returns
\* a transaction of the txid it asked for, and the cache then holds exactly
\* one entry for that txid.
C35_CacheLockDiscipline ==
    /\ []CallerRule
    /\ \A c \in Callers : AtMutex(c) ~> (ft_pc[c] \in {"net", "ret"})

\* Both threads missed the cache on the same txid, both fetched it and
\* returned it, and the cache holds the entry of one of them.
C35_Witness ==
    /\ \A c \in Callers : ft_pc[c] = "ret" /\ ft_missed[c] /\ ft_ret[c].kind = "Ok"
    /\ \A c, d \in Callers : ft_txid[c] = ft_txid[d]
    /\ \E c, d \in Callers : c # d /\ ft_ret[c].arc = c /\ ft_ret[d].arc = d
    /\ tx_gets[ft_txid[1]] = MaxCallers
    /\ Cardinality(CacheEntries(ft_txid[1])) = 1

====
